---- MODULE Spec2Model ----
(***************************************************************************)
(* Ingestion pipeline of the textbook RAG backend (backend/ingestion):     *)
(* crawler, chunker, checkpoint store, embedding client, vector index      *)
(* manager and the orchestrator IngestionPipeline.run; and the query path  *)
(* of backend/retrieve.py: QueryEmbedder.embed_query and                   *)
(* RetrieverClient.search.                                                 *)
(*                                                                         *)
(* Strings are sequences of one-character strings, so that the string      *)
(* formatting of the code (f"{url}:{text}") is modelled as concatenation.  *)
(* SHA-256 and the embedding model are opaque injective functions: a       *)
(* digest is the tagged preimage, a vector is the tagged text.             *)
(***************************************************************************)
EXTENDS Integers, Sequences, FiniteSets, TLC

\* ---------------------------------------------------------------- bounds
\* Number of pipeline.run() calls explored.
MaxRuns == 3

\* BATCH_SIZE of the explored configuration (texts per embedding request).
CfgBatchSize == 2

\* MAX_RETRIES of the explored configuration (attempts per batch).
CfgMaxRetries == 2

\* Longest input list handed to embed_chunks when it is called on its own.
MaxLen == 2
\* Batches of one embed_chunks call made on its own.
MaxBatches == 4

\* Number of direct embed_chunks calls on one embedder.
MaxCalls == 2

\* Number of search() calls on one RetrieverClient.
MaxSearches == 2

\* Largest in-range top_k below TopKMax that a search is called with.
MaxTopK == 2

\* ------------------------------------------------------- program constants
\* Provider cap on the batch size, CohereEmbedder.__init__.
BatchCap == 96

\* Number of texts of a failed batch kept in stats["failed_chunks"].
FailedSample == 5

\* Range of top_k accepted by search().
TopKMin == 1
TopKMax == 100

\* Range of similarity_threshold accepted by search(), in tenths: scores and
\* thresholds are held as integers, 10 standing for 1.0.
ThresholdMin == 0
ThresholdMax == 10

\* max_retries of the QueryEmbedder a RetrieverClient builds.
QueryMaxRetries == 3

\* ------------------------------------------------------------ source site
BaseUrl == <<"h">>
UrlX == <<"h", "/", "x">>
UrlY == <<"h", "/", "y">>
Urls == {BaseUrl, UrlX, UrlY}

TextA == <<"a">>
TextB == <<"b">>
TextC == <<"c">>
Texts == {TextA, TextB, TextC}

\* What requests.get + BeautifulSoup yield for a URL whose fetch succeeds:
\* whether an <article>/<main> tag exists, the parts the text splitter
\* cuts the extracted text into, the title, and the internal links.
SitePage(url) ==
    CASE url = BaseUrl -> [article |-> TRUE, parts |-> <<TextA, TextB>>,
                           page_title |-> "home", section_headers |-> <<"h1">>,
                           links |-> <<UrlX, UrlY, BaseUrl>>]
      [] url = UrlX    -> [article |-> TRUE, parts |-> <<TextA, TextC>>,
                           page_title |-> "x", section_headers |-> <<>>,
                           links |-> <<BaseUrl, UrlY>>]
      [] OTHER         -> [article |-> FALSE, parts |-> <<>>,
                           page_title |-> "y", section_headers |-> <<>>,
                           links |-> <<>>]

\* -------------------------------------------------------- sequence helpers
Min(a, b) == IF a < b THEN a ELSE b

Range(s) == {s[i] : i \in 1..Len(s)}

SeqMap(Op(_), s) == [i \in 1..Len(s) |-> Op(s[i])]

\* Python slice s[from : from + n] with a 0-based start.
Slice(s, from, n) == SubSeq(s, from + 1, Min(from + n, Len(s)))

RECURSIVE Flatten(_)
Flatten(ss) == IF ss = <<>> THEN <<>> ELSE Head(ss) \o Flatten(Tail(ss))

\* ------------------------------------------------------------------ state
VARIABLES
    \* the world outside the process
    index,              \* points stored in the collection
    collection_exists,  \* whether the collection has been created
    ckpt_file,          \* the checkpoint file: [exists, processed_hashes]
    \* the pipeline object
    pc,                 \* position of the process
    caller,             \* who called embed_chunks or embed_query
    processed_hashes,   \* CheckpointManager.processed_hashes
    visited_urls,       \* URLCrawler.visited_urls
    fetch_log,          \* URLs this crawler has requested, in order
    failed_urls,        \* URLCrawler.failed_urls
    stats,              \* CohereEmbedder.stats
    batch_size,         \* CohereEmbedder.batch_size
    max_retries,        \* CohereEmbedder.max_retries
    \* locals of crawl()
    to_visit,
    pages,
    \* locals of run()
    all_chunks,
    new_chunks,
    embeddings,
    embed_stats,
    insertion_count,
    mark_i,             \* position of the mark_processed loop
    collection_stats,
    report,
    raised_at,          \* the call whose exception left run(), or "none"
    \* locals of embed_chunks()
    chunks,
    all_embeddings,
    batch_idx,
    attempt,
    \* history
    runs,               \* run() calls started so far
    calls,              \* direct embed_chunks calls started so far
    attempts_seen,      \* outcomes of the earlier attempts of the current batch
    last_attempts,      \* outcomes of all attempts of the batch before it
    cur,                \* facts about the current run
    prev,               \* facts about the run before it
    \* RetrieverClient.search
    s_pc,               \* position of the search call
    query,
    top_k,
    similarity_threshold,
    q_attempt,          \* attempt of embed_query's retry loop
    query_embedding,
    search_results,     \* search_results.points
    response,           \* the dictionary search() returned
    exception,          \* the exception that left search(), or "none"
    embed_requests,     \* calls of the embedding provider made by this search
    index_requests,     \* calls of the vector index made by this search
    failure,            \* the pipeline step of this search that failed, or "none"
    searches,           \* search() calls started so far
    \* a CheckpointManager used on its own
    disk,               \* what is stored under the checkpoint path
    ck_pc,              \* position of the process using the manager
    ck_last,            \* the last call on the manager that returned
    second,             \* processed_hashes of a manager constructed afterwards
    \* a function called on its own
    u_args,             \* the arguments
    u_result,           \* what the call returned
    \* a QdrantManager used on its own
    create_requests,    \* create_collection requests issued so far
    payload_indexes,    \* payload fields the collection has an index on
    index_raised,       \* fields whose create_payload_index raised in the last call
    qd_last,            \* how the last initialize_collection call ended
    \* one RetrieverClient shared by concurrent search() calls
    threads,            \* per calling thread: position, arguments and locals of search()
    client              \* the fields of the client and of its embedder

vars == <<index, collection_exists, ckpt_file, pc, caller, processed_hashes,
          visited_urls, fetch_log, failed_urls, stats, batch_size, max_retries, to_visit,
          pages, all_chunks, new_chunks, embeddings, embed_stats,
          insertion_count, mark_i, collection_stats, report, raised_at, chunks, all_embeddings,
          batch_idx, attempt, runs, calls, attempts_seen, last_attempts, cur, prev,
          s_pc, query, top_k, similarity_threshold, q_attempt, query_embedding,
          search_results, response, exception, embed_requests, index_requests,
          failure, searches, disk, ck_pc, ck_last, second, u_args, u_result,
          create_requests, payload_indexes, index_raised, qd_last,
          threads, client>>

qdrantVars == <<create_requests, payload_indexes, index_raised, qd_last>>

threadVars == <<threads, client>>

unitVars == <<disk, ck_pc, ck_last, second, u_args, u_result, qdrantVars, threadVars>>

ingestVars == <<index, collection_exists, ckpt_file, pc, caller, processed_hashes,
                visited_urls, fetch_log, failed_urls, stats, batch_size, max_retries, to_visit,
                pages, all_chunks, new_chunks, embeddings, embed_stats,
                insertion_count, mark_i, collection_stats, report, raised_at, chunks,
                all_embeddings, batch_idx, attempt, runs, calls, attempts_seen,
                last_attempts, cur, prev>>

searchVars == <<s_pc, query, top_k, similarity_threshold, q_attempt, query_embedding,
                search_results, response, exception, embed_requests, index_requests,
                failure, searches>>

\* ----------------------------------------------------------- pure functions
\* hashlib.sha256(s.encode('utf-8')).hexdigest(), taken as collision-free.
Sha256(s) == <<"sha256", s>>

\* The vector the embedding provider computes for one text.
EmbeddingOf(text) == <<"vec", text>>

\* The provider's response to one embed request: one vector per text, in order.
ProviderEmbed(batch) == SeqMap(EmbeddingOf, batch)

\* Variant: the URL goes into the content hash.
chunk_text_HashWithUrl(text, url, page_title, section_headers) ==
    [i \in 1..Len(text) |->
        [text |-> text[i],
         hash |-> Sha256(url \o text[i]),
         metadata |-> [source_url |-> url,
                       page_title |-> page_title,
                       section_headers |-> section_headers,
                       chunk_id |-> Sha256(url \o text[i]),
                       chunk_index |-> i - 1]]]

\* Variant: the chunks are numbered from 1.
chunk_text_OneBased(text, url, page_title, section_headers) ==
    [i \in 1..Len(text) |->
        [text |-> text[i],
         hash |-> Sha256(text[i]),
         metadata |-> [source_url |-> url,
                       page_title |-> page_title,
                       section_headers |-> section_headers,
                       chunk_id |-> Sha256(text[i]),
                       chunk_index |-> i]]]

\* TextChunker.chunk_text: one chunk per part the splitter returns; a page's
\* text is held as the sequence of those parts.
chunk_text(text, url, page_title, section_headers) ==
    [i \in 1..Len(text) |->
        [text |-> text[i],
         hash |-> Sha256(text[i]),
         metadata |-> [source_url |-> url,
                       page_title |-> page_title,
                       section_headers |-> section_headers,
                       chunk_id |-> Sha256(text[i]),
                       chunk_index |-> i - 1]]]

\* Variant: the id also depends on when the point is built.
generate_point_id_PerRun(text, url) ==
    <<"uuid", Sha256(url \o <<":">> \o text), runs>>

\* QdrantManager.generate_point_id: UUID of the first 32 hex digits of
\* sha256(f"{url}:{text}").
generate_point_id(text, url) == <<"uuid", Sha256(url \o <<":">> \o text)>>

\* Variant: the file is never read.
_load_checkpoint_Empty(file) == {}

\* CheckpointManager._load_checkpoint: the persisted set, or empty when the
\* file is missing.
_load_checkpoint(file) == IF file.exists THEN file.processed_hashes ELSE {}

\* CheckpointManager.is_processed
is_processed(hashes, h) == h \in hashes

\* Variant: nothing is filtered.
FilterByCheckpoint_KeepAll(cs, hashes) == cs

\* Stage 3 of run(): keep the chunks whose hash is not in the checkpoint.
FilterByCheckpoint(cs, hashes) ==
    SelectSeq(cs, LAMBDA c : ~ is_processed(hashes, c.hash))

\* The PointStruct built for one (chunk, embedding) pair.
PointOf(chunk, embedding) ==
    [id |-> generate_point_id(chunk.text, chunk.metadata.source_url),
     vector |-> embedding,
     payload |-> [source_url |-> chunk.metadata.source_url,
                  page_title |-> chunk.metadata.page_title,
                  section_headers |-> chunk.metadata.section_headers,
                  chunk_id |-> chunk.metadata.chunk_id,
                  chunk_index |-> chunk.metadata.chunk_index,
                  chunk_text |-> chunk.text]]

\* zip(chunks, embeddings) of upsert_embeddings: pairs by position and stops
\* at the shorter list.
BuildPoints(cs, embs) ==
    [i \in 1..Min(Len(cs), Len(embs)) |-> PointOf(cs[i], embs[i])]

\* The provider's upsert: a point replaces the stored point of the same id;
\* within one request a later point wins.
RECURSIVE ApplyUpsert(_, _)
ApplyUpsert(stored, points) ==
    IF points = <<>> THEN stored
    ELSE ApplyUpsert({p \in stored : p.id # Head(points).id} \cup {Head(points)},
                     Tail(points))

\* CohereEmbedder.get_stats without the derived rate.
get_stats(st) ==
    [total_chunks |-> st.total_chunks, successful |-> st.successful, failed |-> st.failed]

\* The success_rate of get_stats, as numerator and denominator.
success_rate(st) ==
    IF st.total_chunks > 0 THEN [num |-> st.successful, den |-> st.total_chunks]
                           ELSE [num |-> 0, den |-> 1]

worldVars == <<index, collection_exists, ckpt_file>>
crawlerVars == <<visited_urls, fetch_log, failed_urls, to_visit, pages>>
embedLocals == <<chunks, all_embeddings, batch_idx, attempt, attempts_seen,
                last_attempts>>
embedderVars == <<stats, batch_size, max_retries>>
runLocals == <<all_chunks, new_chunks, embeddings, embed_stats, insertion_count,
               mark_i, collection_stats, report, raised_at>>

NoStats == [total_chunks |-> 0, successful |-> 0, failed |-> 0, failed_chunks |-> <<>>]
NoReport == [status |-> "none"]
NoCollectionStats == [points_count |-> 0]
NoFile == [exists |-> FALSE, processed_hashes |-> {}]

\* Facts recorded about one run, for the properties that span two runs.
NoRun ==
    [outcome |-> "none",       \* "running", "done", "raised" or "killed"
     fresh |-> FALSE,           \* run on a newly constructed pipeline
     clear |-> FALSE,           \* run(clear_checkpoint=True)
     fetch_errors |-> {},       \* URLs whose fetch raised
     batch_failed |-> FALSE,    \* some embedding batch exhausted its retries
     embedded |-> {},           \* chunks whose batch the provider embedded
     written |-> {},            \* ids of the points this run wrote
     overwritten |-> {},        \* those of them that were stored before
     new |-> {},                \* chunks that passed the checkpoint filter
     filtered |-> FALSE,        \* the filter stage has run
     ckpt_at_filter |-> NoFile, \* the checkpoint file at the filter stage
     ckpt_before_upsert |-> [mem |-> {}, file |-> NoFile],
     killed_at |-> "none"]      \* where the process was killed: "window" is
                                \* after EMBED and before UPSERT has returned

\* What is remembered of a run once the next one starts.
NoPrev ==
    [outcome |-> "none", fresh |-> FALSE, in_window |-> FALSE, clean |-> FALSE,
     new |-> {}]

Summary(r) ==
    [outcome |-> r.outcome,
     fresh |-> r.fresh,
     in_window |-> r.killed_at = "window",
     clean |-> r.fetch_errors = {} /\ ~ r.batch_failed,
     new |-> IF r.killed_at = "window" THEN r.new ELSE {}]

\* Positions after stage 4 has returned and before upsert_embeddings has.
Window == {"ensure", "upsert", "upsert_wait"}

NoResponse == [status |-> "none"]

\* Nothing is stored under the checkpoint path.
Missing == [kind |-> "missing"]

NoResult == [done |-> FALSE]

\* No manager and no function is used on its own.
\* No QdrantManager call has been made on its own.
\* The threads that call search() on the shared client.
Threads == {1, 2}

\* A thread that has not called search().
NoThread ==
    [pc |-> "none", query |-> <<>>, top_k |-> 0, similarity_threshold |-> 0,
     attempt |-> 0, query_embedding |-> <<>>, search_results |-> <<>>,
     response |-> NoResponse, failure |-> "none"]

\* What RetrieverClient.__init__ and QueryEmbedder.__init__ assign.
ClientFields ==
    [collection_name |-> "textbook_embeddings", model |-> "embed-english-v3.0",
     max_retries |-> QueryMaxRetries]

ThreadsIdle ==
    /\ threads = [t \in Threads |-> NoThread]
    /\ client = ClientFields

QdrantIdle ==
    /\ create_requests = 0
    /\ payload_indexes = {}
    /\ index_raised = {}
    /\ qd_last = "none"

UnitIdle ==
    /\ QdrantIdle
    /\ ThreadsIdle
    /\ disk = Missing
    /\ ck_pc = "none"
    /\ ck_last = "none"
    /\ second = {}
    /\ u_args = <<>>
    /\ u_result = NoResult

\* No search has been called.
SearchIdle ==
    /\ s_pc = "none"
    /\ query = <<>>
    /\ top_k = 0
    /\ similarity_threshold = 0
    /\ q_attempt = 0
    /\ query_embedding = <<>>
    /\ search_results = <<>>
    /\ response = NoResponse
    /\ exception = "none"
    /\ embed_requests = 0
    /\ index_requests = <<>>
    /\ failure = "none"
    /\ searches = 0

\* ------------------------------------------------------------------- Init
Init ==
    /\ index = {}
    /\ collection_exists = FALSE
    /\ ckpt_file = NoFile
    /\ pc = "none"
    /\ caller = "run"
    /\ processed_hashes = {}
    /\ visited_urls = {}
    /\ fetch_log = <<>>
    /\ failed_urls = <<>>
    /\ stats = NoStats
    /\ batch_size = Min(CfgBatchSize, BatchCap)
    /\ max_retries = CfgMaxRetries
    /\ to_visit = <<>>
    /\ pages = <<>>
    /\ all_chunks = <<>>
    /\ new_chunks = <<>>
    /\ embeddings = <<>>
    /\ embed_stats = get_stats(NoStats)
    /\ insertion_count = 0
    /\ mark_i = 0
    /\ collection_stats = NoCollectionStats
    /\ report = NoReport
    /\ raised_at = "none"
    /\ chunks = <<>>
    /\ all_embeddings = <<>>
    /\ batch_idx = 0
    /\ attempt = 0
    /\ runs = 0
    /\ calls = 0
    /\ attempts_seen = <<>>
    /\ last_attempts = <<>>
    /\ cur = NoRun
    /\ prev = NoPrev
    /\ SearchIdle
    /\ UnitIdle

\* Locals of run() and of the calls it makes, before the run starts.
ResetLocals ==
    /\ pages' = <<>>
    /\ all_chunks' = <<>>
    /\ new_chunks' = <<>>
    /\ embeddings' = <<>>
    /\ embed_stats' = get_stats(NoStats)
    /\ insertion_count' = 0
    /\ mark_i' = 0
    /\ collection_stats' = NoCollectionStats
    /\ report' = NoReport
    /\ raised_at' = "none"
    /\ chunks' = <<>>
    /\ all_embeddings' = <<>>
    /\ batch_idx' = 0
    /\ attempt' = 0
    /\ attempts_seen' = <<>>
    /\ last_attempts' = <<>>

\* Positions at which a run is in progress.
Running ==
    pc \in {"crawl", "chunk", "filter", "embed", "embed_batch", "ensure",
            "upsert", "upsert_wait", "mark", "verify", "report"}

\* ---------------------------------------------------- process life cycle
\* main(): IngestionPipeline(config) builds the crawler, the embedder and the
\* checkpoint manager, which loads the checkpoint file.
NewPipeline ==
    /\ pc \in {"none", "dead", "done", "raised"}
    /\ runs < MaxRuns
    /\ pc' = "idle"
    /\ processed_hashes' = _load_checkpoint(ckpt_file)
    /\ visited_urls' = {}
    /\ fetch_log' = <<>>
    /\ failed_urls' = <<>>
    /\ stats' = NoStats
    /\ batch_size' = Min(CfgBatchSize, BatchCap)
    /\ max_retries' = CfgMaxRetries
    /\ to_visit' = <<>>
    /\ ResetLocals
    /\ UNCHANGED <<unitVars, searchVars, worldVars, caller, runs, calls, cur, prev>>

\* Variant: clear() leaves the file in place.
ClearedFile_Stays == ckpt_file

\* CheckpointManager.clear: empty the set and delete the file.
ClearedFile == NoFile

\* run(clear_checkpoint): the optional clear, then crawl() starts with the
\* base URL queued.
RunStart(clear_checkpoint) ==
    /\ pc \in {"idle", "done", "raised"}
    /\ runs < MaxRuns
    /\ runs' = runs + 1
    /\ IF clear_checkpoint
         THEN /\ processed_hashes' = {}
              /\ ckpt_file' = ClearedFile
         ELSE UNCHANGED <<processed_hashes, ckpt_file>>
    /\ ResetLocals
    /\ to_visit' = <<BaseUrl>>
    /\ pc' = "crawl"
    /\ prev' = Summary(cur)
    /\ cur' = [NoRun EXCEPT !.outcome = "running", !.fresh = (pc = "idle"),
                            !.clear = clear_checkpoint]
    /\ UNCHANGED <<unitVars, searchVars, index, collection_exists, caller, visited_urls, fetch_log, failed_urls,
                   embedderVars, calls>>

\* The process is killed while a run is in progress: the pipeline object and
\* every local are lost, the index and the checkpoint file stay.
Kill ==
    /\ Running
    /\ pc' = "dead"
    /\ processed_hashes' = {}
    /\ visited_urls' = {}
    /\ fetch_log' = <<>>
    /\ failed_urls' = <<>>
    /\ stats' = NoStats
    /\ to_visit' = <<>>
    /\ ResetLocals
    /\ cur' = [NoRun EXCEPT !.outcome = "killed",
                            !.fresh = cur.fresh,
                            !.killed_at = IF pc \in Window THEN "window" ELSE "other",
                            !.new = IF pc \in Window THEN cur.new ELSE {}]
    /\ UNCHANGED <<unitVars, searchVars, worldVars, caller, batch_size, max_retries, runs, calls, prev>>

\* ------------------------------------------------------------ URLCrawler
\* The loop's inner append: a discovered URL is queued unless visited or queued.
RECURSIVE QueueNew(_, _, _)
QueueNew(queue, links, visited) ==
    IF links = <<>> THEN queue
    ELSE QueueNew(IF Head(links) \notin visited /\ Head(links) \notin Range(queue)
                    THEN Append(queue, Head(links)) ELSE queue,
                  Tail(links), visited)

\* URLCrawler._discover_links: the internal links not yet visited.
_discover_links(links, visited) == SelectSeq(links, LAMBDA u : u \notin visited)

\* crawl(): the popped URL was already visited.
CrawlSkipVisited ==
    /\ pc = "crawl"
    /\ to_visit # <<>>
    /\ Head(to_visit) \in visited_urls
    /\ to_visit' = Tail(to_visit)
    /\ UNCHANGED <<unitVars, searchVars, worldVars, pc, caller, processed_hashes, visited_urls, fetch_log, failed_urls,
                   embedderVars, pages, runLocals, embedLocals, runs, calls, cur, prev>>

\* crawl(): the fetch succeeds; a page with an article is kept and its links
\* are queued, a page without one is dropped.
CrawlFetchOk ==
    /\ pc = "crawl"
    /\ to_visit # <<>>
    /\ Head(to_visit) \notin visited_urls
    /\ LET url == Head(to_visit)
           site == SitePage(url)
           visited == visited_urls \cup {url}
       IN /\ visited_urls' = visited
          /\ fetch_log' = Append(fetch_log, url)
          /\ IF site.article
               THEN /\ pages' = Append(pages, [url |-> url,
                                               page_title |-> site.page_title,
                                               section_headers |-> site.section_headers,
                                               extracted_text |-> site.parts])
                    /\ to_visit' = QueueNew(Tail(to_visit),
                                            _discover_links(site.links, visited), visited)
               ELSE /\ pages' = pages
                    /\ to_visit' = Tail(to_visit)
    /\ UNCHANGED <<unitVars, searchVars, worldVars, pc, caller, processed_hashes, failed_urls,
                   embedderVars, runLocals, embedLocals, runs, calls, cur, prev>>

\* Variant: the exception of the fetch is not caught and leaves run().
CrawlFetchError_Propagates ==
    /\ pc = "crawl"
    /\ to_visit # <<>>
    /\ Head(to_visit) \notin visited_urls
    /\ visited_urls' = visited_urls \cup {Head(to_visit)}
    /\ fetch_log' = Append(fetch_log, Head(to_visit))
    /\ to_visit' = Tail(to_visit)
    /\ pc' = "raised"
    /\ raised_at' = "crawl"
    /\ cur' = [cur EXCEPT !.outcome = "raised", !.fetch_errors = @ \cup {Head(to_visit)}]
    /\ UNCHANGED <<unitVars, searchVars, worldVars, caller, processed_hashes, failed_urls, embedderVars,
                   pages, all_chunks, new_chunks, embeddings, embed_stats,
                   insertion_count, mark_i, collection_stats, report, embedLocals,
                   runs, calls, prev>>

\* Variant: a URL whose fetch raised is queued again instead of being
\* marked as visited.
CrawlFetchError_Requeues ==
    /\ pc = "crawl"
    /\ to_visit # <<>>
    /\ Head(to_visit) \notin visited_urls
    /\ visited_urls' = visited_urls
    /\ fetch_log' = Append(fetch_log, Head(to_visit))
    /\ failed_urls' = Append(failed_urls, [url |-> Head(to_visit), error |-> "error"])
    /\ to_visit' = Append(Tail(to_visit), Head(to_visit))
    /\ cur' = [cur EXCEPT !.fetch_errors = @ \cup {Head(to_visit)}]
    /\ UNCHANGED <<unitVars, searchVars, worldVars, pc, caller, processed_hashes, embedderVars, pages,
                   runLocals, embedLocals, runs, calls, prev>>

\* crawl(): the fetch raises; the URL is recorded and the loop goes on.
CrawlFetchError ==
    /\ pc = "crawl"
    /\ to_visit # <<>>
    /\ Head(to_visit) \notin visited_urls
    /\ visited_urls' = visited_urls \cup {Head(to_visit)}
    /\ fetch_log' = Append(fetch_log, Head(to_visit))
    /\ failed_urls' = Append(failed_urls, [url |-> Head(to_visit), error |-> "error"])
    /\ to_visit' = Tail(to_visit)
    /\ cur' = [cur EXCEPT !.fetch_errors = @ \cup {Head(to_visit)}]
    /\ UNCHANGED <<unitVars, searchVars, worldVars, pc, caller, processed_hashes, embedderVars, pages,
                   runLocals, embedLocals, runs, calls, prev>>

\* crawl() returns when the queue is empty.
CrawlReturn ==
    /\ pc = "crawl"
    /\ to_visit = <<>>
    /\ pc' = "chunk"
    /\ UNCHANGED <<unitVars, searchVars, worldVars, caller, processed_hashes, crawlerVars, embedderVars,
                   runLocals, embedLocals, runs, calls, cur, prev>>

\* ------------------------------------------------------- stages 2 and 3
ChunkKey(c) == <<c.metadata.source_url, c.text>>

\* Stage 2: chunk every page, in crawl order.
ChunkPages(ps) ==
    Flatten([i \in 1..Len(ps) |->
        chunk_text(ps[i].extracted_text, ps[i].url, ps[i].page_title,
                   ps[i].section_headers)])

StageChunk ==
    /\ pc = "chunk"
    /\ all_chunks' = ChunkPages(pages)
    /\ pc' = "filter"
    /\ UNCHANGED <<unitVars, searchVars, worldVars, caller, processed_hashes, crawlerVars, embedderVars,
                   new_chunks, embeddings, embed_stats, insertion_count, mark_i,
                   collection_stats, report, raised_at, embedLocals, runs, calls,
                   cur, prev>>

StageFilter ==
    /\ pc = "filter"
    /\ new_chunks' = FilterByCheckpoint(all_chunks, processed_hashes)
    /\ pc' = "embed"
    /\ cur' = [cur EXCEPT !.filtered = TRUE,
                          !.new = {ChunkKey(c) : c \in Range(new_chunks')},
                          !.ckpt_at_filter = ckpt_file]
    /\ UNCHANGED <<unitVars, searchVars, worldVars, caller, processed_hashes, crawlerVars, embedderVars,
                   all_chunks, embeddings, embed_stats, insertion_count, mark_i,
                   collection_stats, report, raised_at, embedLocals, runs, calls,
                   prev>>

\* -------------------------------------------------------- CohereEmbedder
\* chunks[batch_idx : batch_idx + self.batch_size]
Batch == Slice(chunks, batch_idx, batch_size)

\* The chunks of the run whose texts make up the current batch.
BatchKeys ==
    IF caller = "run"
      THEN {ChunkKey(new_chunks[i]) :
              i \in (batch_idx + 1)..Min(batch_idx + batch_size, Len(new_chunks))}
      ELSE {}

\* Variant: the loop advances by one text instead of one batch.
NextBatch_Overlap(outcome) ==
    /\ batch_idx' = batch_idx + 1
    /\ attempt' = 0
    /\ last_attempts' = Append(attempts_seen, outcome)
    /\ attempts_seen' = <<>>

\* The outer loop moves to the next batch.
NextBatch(outcome) ==
    /\ batch_idx' = batch_idx + batch_size
    /\ attempt' = 0
    /\ last_attempts' = Append(attempts_seen, outcome)
    /\ attempts_seen' = <<>>

\* Facts about the run change only when run() made the call.
Note(r) == IF caller = "run" THEN r ELSE cur

InRetryLoop ==
    /\ pc = "embed_batch"
    /\ batch_idx < Len(chunks)
    /\ attempt < max_retries

\* Variant: the texts of all chunks are handed to embed_chunks.
StageEmbedCall_AllChunks ==
    /\ pc = "embed"
    /\ new_chunks # <<>>
    /\ chunks' = [i \in 1..Len(all_chunks) |-> all_chunks[i].text]
    /\ stats' = [stats EXCEPT !.total_chunks = Len(all_chunks)]
    /\ all_embeddings' = <<>>
    /\ batch_idx' = 0
    /\ attempt' = 0
    /\ attempts_seen' = <<>>
    /\ last_attempts' = <<>>
    /\ caller' = "run"
    /\ pc' = "embed_batch"
    /\ UNCHANGED <<unitVars, searchVars, worldVars, processed_hashes, crawlerVars, batch_size, max_retries,
                   runLocals, runs, calls, cur, prev>>

\* Stage 4 with new chunks: embed_chunks(chunk_texts) is entered.
StageEmbedCall ==
    /\ pc = "embed"
    /\ new_chunks # <<>>
    /\ chunks' = [i \in 1..Len(new_chunks) |-> new_chunks[i].text]
    /\ stats' = [stats EXCEPT !.total_chunks = Len(new_chunks)]
    /\ all_embeddings' = <<>>
    /\ batch_idx' = 0
    /\ attempt' = 0
    /\ attempts_seen' = <<>>
    /\ last_attempts' = <<>>
    /\ caller' = "run"
    /\ pc' = "embed_batch"
    /\ UNCHANGED <<unitVars, searchVars, worldVars, processed_hashes, crawlerVars, batch_size, max_retries,
                   runLocals, runs, calls, cur, prev>>

\* Stage 4 without new chunks: no call, default statistics.
StageEmbedSkip ==
    /\ pc = "embed"
    /\ new_chunks = <<>>
    /\ embeddings' = <<>>
    /\ embed_stats' = [total_chunks |-> 0, successful |-> 0, failed |-> 0]
    /\ pc' = "ensure"
    /\ UNCHANGED <<unitVars, searchVars, worldVars, caller, processed_hashes, crawlerVars, embedderVars,
                   all_chunks, new_chunks, insertion_count, mark_i, collection_stats,
                   report, raised_at, embedLocals, runs, calls, cur, prev>>

\* Variant: the retry loop is not left after a successful attempt.
EmbedAttemptOk_NoBreak ==
    /\ InRetryLoop
    /\ all_embeddings' = all_embeddings \o ProviderEmbed(Batch)
    /\ stats' = [stats EXCEPT !.successful = @ + Len(Batch)]
    /\ IF attempt + 1 < max_retries
         THEN /\ attempt' = attempt + 1
              /\ attempts_seen' = Append(attempts_seen, "ok")
              /\ UNCHANGED <<batch_idx, last_attempts>>
         ELSE NextBatch("ok")
    /\ cur' = Note([cur EXCEPT !.embedded = @ \cup BatchKeys])
    /\ UNCHANGED <<unitVars, searchVars, worldVars, pc, caller, processed_hashes, crawlerVars, batch_size,
                   max_retries, runLocals, chunks, runs, calls, prev>>

\* One attempt succeeds: the vectors are appended and the retry loop is left.
EmbedAttemptOk ==
    /\ InRetryLoop
    /\ all_embeddings' = all_embeddings \o ProviderEmbed(Batch)
    /\ stats' = [stats EXCEPT !.successful = @ + Len(Batch)]
    /\ NextBatch("ok")
    /\ cur' = Note([cur EXCEPT !.embedded = @ \cup BatchKeys])
    /\ UNCHANGED <<unitVars, searchVars, worldVars, pc, caller, processed_hashes, crawlerVars, batch_size,
                   max_retries, runLocals, chunks, runs, calls, prev>>

\* One attempt ends in TooManyRequestsError: sleep, then the next attempt; after
\* the last attempt the retry loop simply ends.
EmbedAttemptRateLimit ==
    /\ InRetryLoop
    /\ IF attempt + 1 < max_retries
         THEN /\ attempt' = attempt + 1
              /\ attempts_seen' = Append(attempts_seen, "rate_limit")
              /\ UNCHANGED <<batch_idx, last_attempts, cur>>
         ELSE /\ NextBatch("rate_limit")
              /\ cur' = Note([cur EXCEPT !.batch_failed = TRUE])
    /\ UNCHANGED <<unitVars, searchVars, worldVars, pc, caller, processed_hashes, crawlerVars, embedderVars,
                   runLocals, chunks, all_embeddings, runs, calls, prev>>

\* Variant: the exception of the last attempt is raised again.
EmbedAttemptError_Raises ==
    /\ InRetryLoop
    /\ IF attempt = max_retries - 1
         THEN /\ pc' = "raised"
              /\ raised_at' = "embed_chunks"
              /\ UNCHANGED <<stats, batch_idx, attempt, attempts_seen, last_attempts>>
         ELSE /\ attempt' = attempt + 1
              /\ attempts_seen' = Append(attempts_seen, "error")
              /\ UNCHANGED <<pc, raised_at, stats, batch_idx, last_attempts>>
    /\ UNCHANGED <<unitVars, searchVars, worldVars, caller, processed_hashes, crawlerVars, batch_size,
                   max_retries, all_chunks, new_chunks, embeddings, embed_stats,
                   insertion_count, mark_i, collection_stats, report, chunks,
                   all_embeddings, runs, calls, cur, prev>>

\* One attempt ends in another exception: on the last attempt the batch is
\* counted as failed and sampled, otherwise sleep and retry.
EmbedAttemptError ==
    /\ InRetryLoop
    /\ IF attempt = max_retries - 1
         THEN /\ stats' = [stats EXCEPT
                              !.failed = @ + Len(Batch),
                              !.failed_chunks = @ \o Slice(Batch, 0, FailedSample)]
              /\ NextBatch("error")
              /\ cur' = Note([cur EXCEPT !.batch_failed = TRUE])
         ELSE /\ attempt' = attempt + 1
              /\ attempts_seen' = Append(attempts_seen, "error")
              /\ UNCHANGED <<stats, batch_idx, last_attempts, cur>>
    /\ UNCHANGED <<unitVars, searchVars, worldVars, pc, caller, processed_hashes, crawlerVars, batch_size,
                   max_retries, runLocals, chunks, all_embeddings, runs, calls, prev>>

\* embed_chunks returns all_embeddings; run() then reads get_stats().
EmbedReturn ==
    /\ pc = "embed_batch"
    /\ batch_idx >= Len(chunks)
    /\ embeddings' = all_embeddings
    /\ IF caller = "run"
         THEN /\ embed_stats' = get_stats(stats)
              /\ pc' = "ensure"
         ELSE /\ embed_stats' = embed_stats
              /\ pc' = "returned"
    /\ UNCHANGED <<unitVars, searchVars, worldVars, caller, processed_hashes, crawlerVars, embedderVars,
                   all_chunks, new_chunks, insertion_count, mark_i, collection_stats,
                   report, raised_at, embedLocals, runs, calls, cur, prev>>

\* --------------------------------------------------- stages 5 to 8 of run()
\* Stage 5: initialize_collection succeeds; the collection exists afterwards.
StageEnsure ==
    /\ pc = "ensure"
    /\ collection_exists' = TRUE
    /\ pc' = "upsert"
    /\ cur' = [cur EXCEPT !.ckpt_before_upsert =
                              [mem |-> processed_hashes, file |-> ckpt_file]]
    /\ UNCHANGED <<unitVars, searchVars, index, ckpt_file, caller, processed_hashes, crawlerVars,
                   embedderVars, runLocals, embedLocals, runs, calls, prev>>

\* Stage 5: a client call of initialize_collection raises and run() is left.
StageEnsureRaise ==
    /\ pc = "ensure"
    /\ pc' = "raised"
    /\ raised_at' = "initialize_collection"
    /\ cur' = [cur EXCEPT !.outcome = "raised"]
    /\ UNCHANGED <<unitVars, searchVars, worldVars, caller, processed_hashes, crawlerVars, embedderVars,
                   all_chunks, new_chunks, embeddings, embed_stats, insertion_count,
                   mark_i, collection_stats, report, embedLocals, runs, calls, prev>>

\* Stage 6 is entered only with new chunks and a non-empty embedding list.
UpsertGuard == new_chunks # <<>> /\ embeddings # <<>>

UpsertSkip ==
    /\ pc = "upsert"
    /\ ~ UpsertGuard
    /\ pc' = "verify"
    /\ UNCHANGED <<unitVars, searchVars, worldVars, caller, processed_hashes, crawlerVars, embedderVars,
                   runLocals, embedLocals, runs, calls, cur, prev>>

\* upsert_embeddings: the points are built and client.upsert(wait=True)
\* stores them.
UpsertWrite ==
    /\ pc = "upsert"
    /\ UpsertGuard
    /\ LET points == BuildPoints(new_chunks, embeddings)
       IN /\ index' = ApplyUpsert(index, points)
          /\ cur' = [cur EXCEPT
                       !.written = {points[i].id : i \in 1..Len(points)},
                       !.overwritten = {points[i].id : i \in 1..Len(points)}
                                           \cap {p.id : p \in index}]
    /\ pc' = "upsert_wait"
    /\ UNCHANGED <<unitVars, searchVars, collection_exists, ckpt_file, caller, processed_hashes,
                   crawlerVars, embedderVars, runLocals, embedLocals, runs, calls, prev>>

\* Variant: the chunks are marked before the write is attempted.
UpsertRaise_AfterMarking ==
    /\ pc = "upsert"
    /\ UpsertGuard
    /\ pc' = "raised"
    /\ raised_at' = "upsert_embeddings"
    /\ processed_hashes' = processed_hashes \cup {c.hash : c \in Range(new_chunks)}
    /\ ckpt_file' = [exists |-> TRUE, processed_hashes |-> processed_hashes']
    /\ cur' = [cur EXCEPT !.outcome = "raised"]
    /\ UNCHANGED <<unitVars, searchVars, index, collection_exists, caller, crawlerVars, embedderVars,
                   all_chunks, new_chunks, embeddings, embed_stats, insertion_count,
                   mark_i, collection_stats, report, embedLocals, runs, calls, prev>>

\* upsert_embeddings: client.upsert raises; logged and raised again.
UpsertRaise ==
    /\ pc = "upsert"
    /\ UpsertGuard
    /\ pc' = "raised"
    /\ raised_at' = "upsert_embeddings"
    /\ cur' = [cur EXCEPT !.outcome = "raised"]
    /\ UNCHANGED <<unitVars, searchVars, worldVars, caller, processed_hashes, crawlerVars, embedderVars,
                   all_chunks, new_chunks, embeddings, embed_stats, insertion_count,
                   mark_i, collection_stats, report, embedLocals, runs, calls, prev>>

\* upsert_embeddings returns len(points); the mark loop starts.
UpsertAck ==
    /\ pc = "upsert_wait"
    /\ insertion_count' = Len(BuildPoints(new_chunks, embeddings))
    /\ mark_i' = 1
    /\ pc' = "mark"
    /\ UNCHANGED <<unitVars, searchVars, worldVars, caller, processed_hashes, crawlerVars, embedderVars,
                   all_chunks, new_chunks, embeddings, embed_stats, collection_stats,
                   report, raised_at, embedLocals, runs, calls, cur, prev>>

\* CheckpointManager._save_checkpoint: the whole set is written to the file.
_save_checkpoint(hashes) == [exists |-> TRUE, processed_hashes |-> hashes]

\* One turn of "for chunk in new_chunks: mark_processed(chunk.hash)".
MarkProcessed ==
    /\ pc = "mark"
    /\ mark_i <= Len(new_chunks)
    /\ processed_hashes' = processed_hashes \cup {new_chunks[mark_i].hash}
    /\ ckpt_file' = _save_checkpoint(processed_hashes')
    /\ mark_i' = mark_i + 1
    /\ UNCHANGED <<unitVars, searchVars, index, collection_exists, pc, caller, crawlerVars, embedderVars,
                   all_chunks, new_chunks, embeddings, embed_stats, insertion_count,
                   collection_stats, report, raised_at, embedLocals, runs, calls,
                   cur, prev>>

MarkDone ==
    /\ pc = "mark"
    /\ mark_i > Len(new_chunks)
    /\ pc' = "verify"
    /\ UNCHANGED <<unitVars, searchVars, worldVars, caller, processed_hashes, crawlerVars, embedderVars,
                   runLocals, embedLocals, runs, calls, cur, prev>>

\* Stage 7: get_collection_stats returns the point count.
StageVerify ==
    /\ pc = "verify"
    /\ collection_stats' = [points_count |-> Cardinality(index)]
    /\ pc' = "report"
    /\ UNCHANGED <<unitVars, searchVars, worldVars, caller, processed_hashes, crawlerVars, embedderVars,
                   all_chunks, new_chunks, embeddings, embed_stats, insertion_count,
                   mark_i, report, raised_at, embedLocals, runs, calls, cur, prev>>

\* Stage 7: get_collection_stats raises; logged and raised again.
StageVerifyRaise ==
    /\ pc = "verify"
    /\ pc' = "raised"
    /\ raised_at' = "get_collection_stats"
    /\ cur' = [cur EXCEPT !.outcome = "raised"]
    /\ UNCHANGED <<unitVars, searchVars, worldVars, caller, processed_hashes, crawlerVars, embedderVars,
                   all_chunks, new_chunks, embeddings, embed_stats, insertion_count,
                   mark_i, collection_stats, report, embedLocals, runs, calls, prev>>

\* Stage 8: the report is built and returned.
StageReport ==
    /\ pc = "report"
    /\ report' = [status |-> "success",
                  urls_crawled |-> Cardinality(visited_urls),
                  urls_failed |-> Len(failed_urls),
                  total_chunks_created |-> Len(all_chunks),
                  new_chunks |-> Len(new_chunks),
                  total_embeddings_generated |-> embed_stats.successful,
                  total_points_inserted |-> insertion_count,
                  vector_count |-> collection_stats.points_count,
                  errors |-> failed_urls]
    /\ pc' = "done"
    /\ cur' = [cur EXCEPT !.outcome = "done"]
    /\ UNCHANGED <<unitVars, searchVars, worldVars, caller, processed_hashes, crawlerVars, embedderVars,
                   all_chunks, new_chunks, embeddings, embed_stats, insertion_count,
                   mark_i, collection_stats, raised_at, embedLocals, runs, calls, prev>>

\* ------------------------------------------------------ the ingestion runs
Next ==
    \/ NewPipeline
    \/ \E clear_checkpoint \in BOOLEAN : RunStart(clear_checkpoint)
    \/ Kill
    \/ CrawlSkipVisited
    \/ CrawlFetchOk
    \/ CrawlFetchError
    \/ CrawlReturn
    \/ StageChunk
    \/ StageFilter
    \/ StageEmbedCall
    \/ StageEmbedSkip
    \/ EmbedAttemptOk
    \/ EmbedAttemptRateLimit
    \/ EmbedAttemptError
    \/ EmbedReturn
    \/ StageEnsure
    \/ StageEnsureRaise
    \/ UpsertSkip
    \/ UpsertWrite
    \/ UpsertRaise
    \/ UpsertAck
    \/ MarkProcessed
    \/ MarkDone
    \/ StageVerify
    \/ StageVerifyRaise
    \/ StageReport

Spec == Init /\ [][Next]_vars

\* ------------------------------------------- embed_chunks called directly
\* The longest list: one text more than a batch of FailedSample + 1 holds.
LongList ==
    [i \in 1..(FailedSample + 2) |->
        IF i % 3 = 1 THEN TextA ELSE IF i % 3 = 2 THEN TextB ELSE TextC]

\* One text more than the largest batch the provider accepts.
HugeList == [i \in 1..(BatchCap + 1) |-> IF i % 2 = 1 THEN TextA ELSE TextB]

TextLists ==
    UNION {[1..n -> {TextA, TextB}] : n \in 0..MaxLen} \cup {LongList, HugeList}

\* The lists a call is made with: those that take at most MaxBatches batches.
CallTexts == {texts \in TextLists : Len(texts) <= MaxBatches * batch_size}

\* A CohereEmbedder constructed on its own, with one of three requested batch
\* sizes, the largest above the cap.
InitEmbed ==
    /\ index = {}
    /\ collection_exists = FALSE
    /\ ckpt_file = NoFile
    /\ pc = "embedder"
    /\ caller = "direct"
    /\ processed_hashes = {}
    /\ visited_urls = {}
    /\ fetch_log = <<>>
    /\ failed_urls = <<>>
    /\ stats = NoStats
    /\ batch_size \in {Min(CfgBatchSize, BatchCap), Min(FailedSample + 1, BatchCap),
                       Min(BatchCap + 1, BatchCap)}
    /\ max_retries = CfgMaxRetries
    /\ to_visit = <<>>
    /\ pages = <<>>
    /\ all_chunks = <<>>
    /\ new_chunks = <<>>
    /\ embeddings = <<>>
    /\ embed_stats = get_stats(NoStats)
    /\ insertion_count = 0
    /\ mark_i = 0
    /\ collection_stats = NoCollectionStats
    /\ report = NoReport
    /\ raised_at = "none"
    /\ chunks = <<>>
    /\ all_embeddings = <<>>
    /\ batch_idx = 0
    /\ attempt = 0
    /\ runs = 0
    /\ calls = 0
    /\ attempts_seen = <<>>
    /\ last_attempts = <<>>
    /\ cur = NoRun
    /\ prev = NoPrev
    /\ SearchIdle
    /\ UnitIdle

\* embed_chunks(texts) is entered.
EmbedCall(texts) ==
    /\ pc \in {"embedder", "returned"}
    /\ calls < MaxCalls
    /\ calls' = calls + 1
    /\ chunks' = texts
    /\ stats' = [stats EXCEPT !.total_chunks = Len(texts)]
    /\ all_embeddings' = <<>>
    /\ batch_idx' = 0
    /\ attempt' = 0
    /\ attempts_seen' = <<>>
    /\ last_attempts' = <<>>
    /\ pc' = "embed_batch"
    /\ UNCHANGED <<unitVars, searchVars, worldVars, caller, processed_hashes, crawlerVars, batch_size,
                   max_retries, runLocals, runs, cur, prev>>

NextEmbed ==
    \/ \E texts \in CallTexts : EmbedCall(texts)
    \/ EmbedAttemptOk
    \/ EmbedAttemptRateLimit
    \/ EmbedAttemptError
    \/ EmbedReturn

SpecEmbed == InitEmbed /\ [][NextEmbed]_vars

\* One embed_chunks call that runs to its end: every attempt returns or
\* raises within the request timeout and every sleep ends, so a step of the
\* loops that stays possible is taken.
EmbedStep ==
    \/ EmbedAttemptOk
    \/ EmbedAttemptRateLimit
    \/ EmbedAttemptError
    \/ EmbedReturn

NextEmbedOnce ==
    \/ \E texts \in CallTexts : calls = 0 /\ EmbedCall(texts)
    \/ EmbedAttemptOk
    \/ EmbedAttemptRateLimit
    \/ EmbedAttemptError
    \/ EmbedReturn

SpecEmbedFair == InitEmbed /\ [][NextEmbedOnce]_vars /\ WF_vars(EmbedStep)

\* ------------------------------------------------ RetrieverClient.search
QueryR == <<"r">>
QueryBlank == <<" ">>

\* The queries search() is called with: empty, whitespace only, the text of
\* a stored chunk, and a question.
Queries == {<<>>, QueryBlank, TextA, QueryR}

TopKs == {TopKMin - 1, TopKMax, TopKMax + 1} \cup (TopKMin..MaxTopK)

Thresholds == {ThresholdMin - 1, ThresholdMin, 5, 8, ThresholdMax, ThresholdMax + 1}

\* The vector the provider returns for a query (input_type="search_query").
QueryEmbeddingOf(q) == <<"qvec", q>>

\* Cosine similarity of a query vector and a stored vector, in tenths.
Cosine(qe, v) ==
    CASE qe[2] = v[2] -> 10
      [] qe[2] = QueryR /\ v[2] = TextC -> 4
      [] qe[2] = QueryR -> 8
      [] v[2] = TextB -> 5
      [] OTHER -> -2

\* not query or not query.strip()
IsBlank(q) == \A i \in 1..Len(q) : q[i] \in {" ", "\t", "\n"}

\* The points a successful ingestion of one page stores.
StoredPage(url) ==
    LET cs == chunk_text(SitePage(url).parts, url, SitePage(url).page_title,
                         SitePage(url).section_headers)
    IN Range(BuildPoints(cs, [i \in 1..Len(cs) |-> EmbeddingOf(cs[i].text)]))

\* Points written to the collection by another client: one whose payload
\* has none of the fields search() reads, one that lacks chunk_index and
\* section_headers only, one that lacks chunk_index only.
ForeignPoints ==
    {[id |-> <<"uuid", Sha256(<<"f">>)>>,
      vector |-> EmbeddingOf(TextB),
      payload |-> [chunk_id |-> Sha256(TextB)]],
     [id |-> <<"uuid", Sha256(<<"g">>)>>,
      vector |-> EmbeddingOf(TextC),
      payload |-> [source_url |-> UrlY, page_title |-> "y", chunk_text |-> TextC]],
     [id |-> <<"uuid", Sha256(<<"e">>)>>,
      vector |-> EmbeddingOf(TextA),
      payload |-> [source_url |-> UrlY, page_title |-> "y", section_headers |-> <<"h1">>,
                   chunk_text |-> TextA]]}

\* Collections a search can meet: empty, one page ingested, the site
\* ingested, one page ingested next to foreign points.
SearchIndexes ==
    {UNION {StoredPage(u) : u \in us} : us \in {{}, {BaseUrl}, {BaseUrl, UrlX}}}
        \cup {StoredPage(BaseUrl) \cup ForeignPoints}

\* A RetrieverClient constructed on a collection, or without one.
InitSearch ==
    /\ \/ collection_exists = FALSE /\ index = {}
       \/ collection_exists = TRUE /\ index \in SearchIndexes
    /\ ckpt_file = NoFile
    /\ pc = "retriever"
    /\ caller = "search"
    /\ processed_hashes = {}
    /\ visited_urls = {}
    /\ fetch_log = <<>>
    /\ failed_urls = <<>>
    /\ stats = NoStats
    /\ batch_size = Min(CfgBatchSize, BatchCap)
    /\ max_retries = CfgMaxRetries
    /\ to_visit = <<>>
    /\ pages = <<>>
    /\ all_chunks = <<>>
    /\ new_chunks = <<>>
    /\ embeddings = <<>>
    /\ embed_stats = get_stats(NoStats)
    /\ insertion_count = 0
    /\ mark_i = 0
    /\ collection_stats = NoCollectionStats
    /\ report = NoReport
    /\ raised_at = "none"
    /\ chunks = <<>>
    /\ all_embeddings = <<>>
    /\ batch_idx = 0
    /\ attempt = 0
    /\ runs = 0
    /\ calls = 0
    /\ attempts_seen = <<>>
    /\ last_attempts = <<>>
    /\ cur = NoRun
    /\ prev = NoPrev
    /\ SearchIdle
    /\ UnitIdle

\* search(query, top_k, similarity_threshold) is called.
SearchCall(q, k, t) ==
    /\ s_pc \in {"none", "returned", "raised"}
    /\ searches < MaxSearches
    /\ searches' = searches + 1
    /\ query' = q
    /\ top_k' = k
    /\ similarity_threshold' = t
    /\ q_attempt' = 0
    /\ query_embedding' = <<>>
    /\ search_results' = <<>>
    /\ response' = NoResponse
    /\ exception' = "none"
    /\ embed_requests' = 0
    /\ index_requests' = <<>>
    /\ failure' = "none"
    /\ s_pc' = "validate"
    /\ UNCHANGED <<unitVars, ingestVars>>

ValidArgs(k, t) ==
    /\ TopKMin <= k /\ k <= TopKMax
    /\ ThresholdMin <= t /\ t <= ThresholdMax

\* Variant: out-of-range arguments are clamped into range.
SearchValidate_Clamps ==
    /\ s_pc = "validate"
    /\ top_k' = IF top_k < TopKMin THEN TopKMin ELSE Min(top_k, TopKMax)
    /\ similarity_threshold' =
          IF similarity_threshold < ThresholdMin THEN ThresholdMin
          ELSE Min(similarity_threshold, ThresholdMax)
    /\ s_pc' = "embed_query"
    /\ UNCHANGED <<unitVars, ingestVars, query, q_attempt, query_embedding, search_results,
                   response, exception, embed_requests, index_requests, failure,
                   searches>>

\* The two range checks ahead of the try block.
SearchValidate ==
    /\ s_pc = "validate"
    /\ IF ValidArgs(top_k, similarity_threshold)
         THEN /\ s_pc' = "embed_query"
              /\ exception' = exception
         ELSE /\ s_pc' = "raised"
              /\ exception' = "ValueError"
    /\ UNCHANGED <<unitVars, ingestVars, query, top_k, similarity_threshold, q_attempt,
                   query_embedding, search_results, response, embed_requests,
                   index_requests, failure, searches>>

\* The dictionary built by the except branch of search().
ErrorResponse(message) ==
    [status |-> "error",
     query |-> [text |-> query],
     results |-> <<>>,
     total_results |-> 0,
     requested_top_k |-> top_k,
     error |-> [code |-> "SEARCH_FAILED", message |-> message]]

\* Variant: the blank check is missing and the query is sent.
EmbedQueryBlank_Sent ==
    /\ s_pc = "embed_query"
    /\ IsBlank(query)
    /\ embed_requests' = embed_requests + 1
    /\ query_embedding' = QueryEmbeddingOf(query)
    /\ s_pc' = IF caller = "search" THEN "query_points" ELSE "returned"
    /\ UNCHANGED <<unitVars, ingestVars, query, top_k, similarity_threshold, q_attempt,
                   search_results, response, exception, index_requests, failure,
                   searches>>

\* embed_query raises ValueError for a blank query; search() catches it, a
\* direct caller gets it.
EmbedQueryBlank ==
    /\ s_pc = "embed_query"
    /\ IsBlank(query)
    /\ failure' = "blank_query"
    /\ IF caller = "search"
         THEN /\ response' = ErrorResponse("Query cannot be empty")
              /\ s_pc' = "returned"
              /\ exception' = exception
         ELSE /\ exception' = "ValueError"
              /\ s_pc' = "raised"
              /\ response' = response
    /\ UNCHANGED <<unitVars, ingestVars, query, top_k, similarity_threshold, q_attempt,
                   query_embedding, search_results, embed_requests,
                   index_requests, searches>>

InQueryRetryLoop ==
    /\ s_pc = "embed_query"
    /\ ~ IsBlank(query)
    /\ q_attempt < QueryMaxRetries

\* One attempt of embed_query succeeds and the vector is returned.
EmbedQueryAttemptOk ==
    /\ InQueryRetryLoop
    /\ embed_requests' = embed_requests + 1
    /\ query_embedding' = QueryEmbeddingOf(query)
    /\ s_pc' = IF caller = "search" THEN "query_points" ELSE "returned"
    /\ UNCHANGED <<unitVars, ingestVars, query, top_k, similarity_threshold, q_attempt,
                   search_results, response, exception, index_requests, failure,
                   searches>>

\* Variant: the RuntimeError of the last attempt leaves search().
EmbedQueryAttemptFail_Propagates ==
    /\ InQueryRetryLoop
    /\ embed_requests' = embed_requests + 1
    /\ IF q_attempt = QueryMaxRetries - 1
         THEN /\ failure' = "embed_query"
              /\ exception' = "RuntimeError"
              /\ s_pc' = "raised"
              /\ q_attempt' = q_attempt
         ELSE /\ q_attempt' = q_attempt + 1
              /\ UNCHANGED <<failure, exception, s_pc>>
    /\ UNCHANGED <<unitVars, ingestVars, query, top_k, similarity_threshold, query_embedding,
                   search_results, response, index_requests, searches>>

\* Variant: after the last failed attempt an empty vector is returned.
EmbedQueryAttemptFail_SoftEmpty ==
    /\ InQueryRetryLoop
    /\ embed_requests' = embed_requests + 1
    /\ IF q_attempt = QueryMaxRetries - 1
         THEN /\ failure' = "embed_query"
              /\ s_pc' = IF caller = "search" THEN "query_points" ELSE "returned"
              /\ q_attempt' = q_attempt
         ELSE /\ q_attempt' = q_attempt + 1
              /\ UNCHANGED <<failure, s_pc>>
    /\ UNCHANGED <<unitVars, ingestVars, query, top_k, similarity_threshold, query_embedding,
                   search_results, response, exception, index_requests, searches>>

\* One attempt of embed_query fails: retried, and on the last attempt
\* RuntimeError is raised, which search() catches and a direct caller gets.
EmbedQueryAttemptFail ==
    /\ InQueryRetryLoop
    /\ embed_requests' = embed_requests + 1
    /\ IF q_attempt = QueryMaxRetries - 1
         THEN /\ failure' = "embed_query"
              /\ q_attempt' = q_attempt
              /\ IF caller = "search"
                   THEN /\ response' = ErrorResponse("Failed to embed query")
                        /\ s_pc' = "returned"
                        /\ exception' = exception
                   ELSE /\ exception' = "RuntimeError"
                        /\ s_pc' = "raised"
                        /\ response' = response
         ELSE /\ q_attempt' = q_attempt + 1
              /\ UNCHANGED <<failure, response, s_pc, exception>>
    /\ UNCHANGED <<unitVars, ingestVars, query, top_k, similarity_threshold, query_embedding,
                   search_results, index_requests, searches>>

\* A ScoredPoint of the index's answer.
Hit(p, qe) == [id |-> p.id, score |-> Cosine(qe, p.vector), payload |-> p.payload]

\* The answers of the index to query_points(query=qe, limit=limit): the
\* limit nearest points, nearest first, ties in any order.
query_points(stored, qe, limit) ==
    LET n == Min(limit, Cardinality(stored))
    IN {h \in [1..n -> {Hit(p, qe) : p \in stored}] :
          /\ \A i, j \in 1..n : i < j => h[i].id # h[j].id /\ h[i].score >= h[j].score
          /\ \A p \in stored :
                (\A i \in 1..n : h[i].id # p.id) =>
                    \A i \in 1..n : h[i].score >= Cosine(qe, p.vector)}

\* Variant: the call is made without limit=top_k.
QueryPointsOk_NoLimit ==
    /\ s_pc = "query_points"
    /\ collection_exists
    /\ \E h \in query_points(index, query_embedding, Cardinality(index)) :
          search_results' = h
    /\ index_requests' = Append(index_requests, [limit |-> Cardinality(index)])
    /\ s_pc' = "format"
    /\ UNCHANGED <<unitVars, ingestVars, query, top_k, similarity_threshold, q_attempt,
                   query_embedding, response, exception, embed_requests, failure,
                   searches>>

\* qdrant_client.query_points(limit=top_k) answers.
QueryPointsOk ==
    /\ s_pc = "query_points"
    /\ collection_exists
    /\ \E h \in query_points(index, query_embedding, top_k) : search_results' = h
    /\ index_requests' = Append(index_requests, [limit |-> top_k])
    /\ s_pc' = "format"
    /\ UNCHANGED <<unitVars, ingestVars, query, top_k, similarity_threshold, q_attempt,
                   query_embedding, response, exception, embed_requests, failure,
                   searches>>

\* Variant: the exception of the index call leaves search().
QueryPointsRaise_Propagates ==
    /\ s_pc = "query_points"
    /\ index_requests' = Append(index_requests, [limit |-> top_k])
    /\ failure' = "query_points"
    /\ exception' = "Exception"
    /\ s_pc' = "raised"
    /\ UNCHANGED <<unitVars, ingestVars, query, top_k, similarity_threshold, q_attempt,
                   query_embedding, search_results, response, embed_requests,
                   searches>>

\* qdrant_client.query_points raises (index unavailable, collection
\* missing); search() catches it.
QueryPointsRaise ==
    /\ s_pc = "query_points"
    /\ index_requests' = Append(index_requests, [limit |-> top_k])
    /\ failure' = "query_points"
    /\ response' = ErrorResponse("query_points failed")
    /\ s_pc' = "returned"
    /\ UNCHANGED <<unitVars, ingestVars, query, top_k, similarity_threshold, q_attempt,
                   query_embedding, search_results, exception, embed_requests,
                   searches>>

\* dict.get(key, default)
PayloadGet(payload, key, default) ==
    IF key \in DOMAIN payload THEN payload[key] ELSE default

\* str(point.id)
Str(x) == <<"str", x>>

\* Variant: a missing chunk_index is reported as 0.
ResultOf_IndexZero(point, rank) ==
    [chunk_id |-> Str(point.id),
     chunk_text |-> PayloadGet(point.payload, "chunk_text", <<>>),
     similarity_score |-> point.score,
     rank |-> rank,
     metadata |-> [source_url |-> PayloadGet(point.payload, "source_url", <<>>),
                   page_title |-> PayloadGet(point.payload, "page_title", ""),
                   section_headers |-> PayloadGet(point.payload, "section_headers", <<>>),
                   chunk_index |-> PayloadGet(point.payload, "chunk_index", 0)]]

\* The result dictionary of one kept point.
ResultOf(point, rank) ==
    [chunk_id |-> Str(point.id),
     chunk_text |-> PayloadGet(point.payload, "chunk_text", <<>>),
     similarity_score |-> point.score,
     rank |-> rank,
     metadata |-> [source_url |-> PayloadGet(point.payload, "source_url", <<>>),
                   page_title |-> PayloadGet(point.payload, "page_title", ""),
                   section_headers |-> PayloadGet(point.payload, "section_headers", <<>>),
                   chunk_index |-> PayloadGet(point.payload, "chunk_index", -1)]]

\* Variant: a point at the threshold is dropped.
Keep_Strict(point, threshold) == point.score > threshold

\* if point.score >= similarity_threshold
Keep(point, threshold) == point.score >= threshold

\* Variant: the rank is taken before it is incremented.
RECURSIVE FormatLoop_ZeroBased(_, _, _, _)
FormatLoop_ZeroBased(points, threshold, rank, results) ==
    IF points = <<>> THEN results
    ELSE IF Keep(Head(points), threshold)
           THEN FormatLoop_ZeroBased(Tail(points), threshold, rank + 1,
                                     Append(results, ResultOf(Head(points), rank)))
           ELSE FormatLoop_ZeroBased(Tail(points), threshold, rank, results)

\* Variant: a kept point is put at the front of the list.
RECURSIVE FormatLoop_Prepend(_, _, _, _)
FormatLoop_Prepend(points, threshold, rank, results) ==
    IF points = <<>> THEN results
    ELSE IF Keep(Head(points), threshold)
           THEN FormatLoop_Prepend(Tail(points), threshold, rank + 1,
                                   <<ResultOf(Head(points), rank + 1)>> \o results)
           ELSE FormatLoop_Prepend(Tail(points), threshold, rank, results)

\* "for point in search_results.points": the rank grows with every kept
\* point, whose result is appended.
RECURSIVE FormatLoop(_, _, _, _)
FormatLoop(points, threshold, rank, results) ==
    IF points = <<>> THEN results
    ELSE IF Keep(Head(points), threshold)
           THEN FormatLoop(Tail(points), threshold, rank + 1,
                           Append(results, ResultOf(Head(points), rank + 1)))
           ELSE FormatLoop(Tail(points), threshold, rank, results)

\* Step 3 of search(): the results are formatted and the response returned.
FormatResults ==
    /\ s_pc = "format"
    /\ LET results == FormatLoop(search_results, similarity_threshold, 0, <<>>)
       IN response' = [status |-> "success",
                       query |-> [text |-> query],
                       results |-> results,
                       total_results |-> Len(results),
                       requested_top_k |-> top_k]
    /\ s_pc' = "returned"
    /\ UNCHANGED <<unitVars, ingestVars, query, top_k, similarity_threshold, q_attempt,
                   query_embedding, search_results, exception, embed_requests,
                   index_requests, failure, searches>>

NextSearch ==
    \/ \E q \in Queries, k \in TopKs, t \in Thresholds : SearchCall(q, k, t)
    \/ SearchValidate
    \/ EmbedQueryBlank
    \/ EmbedQueryAttemptOk
    \/ EmbedQueryAttemptFail
    \/ QueryPointsOk
    \/ QueryPointsRaise
    \/ FormatResults

SpecSearch == InitSearch /\ [][NextSearch]_vars

\* ------------------------------------------ CheckpointManager on its own
HashA == Sha256(TextA)
HashB == Sha256(TextB)

\* The orders list(a_set) can have.
ListsOf(S) == {l \in [1..Cardinality(S) -> S] : Range(l) = S}

\* What json.dump writes for {'processed_hashes': hashes}.
json_dump(hashes) ==
    [t |-> "obj", member |-> [m |-> "list", v |-> hashes]]

\* The values data['processed_hashes'] of a JSON object can have: absent, a
\* list of strings, a string (held as the list of its characters), a number,
\* null, a list holding a list, an object.
Members ==
    {[m |-> "absent"], [m |-> "num"], [m |-> "null"], [m |-> "nested"],
     [m |-> "str", chars |-> <<<<"a">>, <<"b">>>>],
     [m |-> "dict", keys |-> {<<"k">>}]}
        \cup {[m |-> "list", v |-> l] : l \in ListsOf({}) \cup ListsOf({HashA})
                                                \cup ListsOf({HashA, HashB})}

\* The texts a file can hold: something that is no JSON (a truncated write
\* included), a JSON array, a JSON object.
Documents ==
    {[t |-> "garbage"], [t |-> "list"]} \cup {[t |-> "obj", member |-> mb] : mb \in Members}

\* What can be under the checkpoint path: nothing, a file that cannot be
\* opened, a file with a text.
DiskStates ==
    {Missing, [kind |-> "unreadable"]} \cup {[kind |-> "file", data |-> d] : d \in Documents}

\* len(x) and set(x) of _load_checkpoint for x = data.get('processed_hashes',
\* []): a number, null and a list with an unhashable element raise.
PySetRaises(mb) == mb.m \in {"num", "null", "nested"}

PySet(mb) ==
    CASE mb.m = "absent" -> {}
      [] mb.m = "list" -> Range(mb.v)
      [] mb.m = "str" -> Range(mb.chars)
      [] mb.m = "dict" -> mb.keys
      [] OTHER -> {}

\* _load_checkpoint on what the path holds: a missing file gives the empty
\* set, and so does every exception of open, json.load, data.get, len or
\* set, which the except branch catches.
LoadFrom(d) ==
    IF d.kind # "file" THEN {}
    ELSE IF d.data.t # "obj" THEN {}
    ELSE IF PySetRaises(d.data.member) THEN {}
    ELSE PySet(d.data.member)

\* A process that is about to construct a CheckpointManager on the path.
InitCkpt ==
    /\ index = {}
    /\ collection_exists = FALSE
    /\ ckpt_file = NoFile
    /\ pc = "checkpoint"
    /\ caller = "direct"
    /\ processed_hashes = {}
    /\ visited_urls = {}
    /\ fetch_log = <<>>
    /\ failed_urls = <<>>
    /\ stats = NoStats
    /\ batch_size = Min(CfgBatchSize, BatchCap)
    /\ max_retries = CfgMaxRetries
    /\ to_visit = <<>>
    /\ pages = <<>>
    /\ all_chunks = <<>>
    /\ new_chunks = <<>>
    /\ embeddings = <<>>
    /\ embed_stats = get_stats(NoStats)
    /\ insertion_count = 0
    /\ mark_i = 0
    /\ collection_stats = NoCollectionStats
    /\ report = NoReport
    /\ raised_at = "none"
    /\ chunks = <<>>
    /\ all_embeddings = <<>>
    /\ batch_idx = 0
    /\ attempt = 0
    /\ runs = 0
    /\ calls = 0
    /\ attempts_seen = <<>>
    /\ last_attempts = <<>>
    /\ cur = NoRun
    /\ prev = NoPrev
    /\ SearchIdle
    /\ QdrantIdle
    /\ ThreadsIdle
    /\ disk \in DiskStates
    /\ ck_pc = "none"
    /\ ck_last = "none"
    /\ second = {}
    /\ u_args = <<>>
    /\ u_result = NoResult

\* Every variable of the ingestion side but the manager's set.
ingestOther == <<index, collection_exists, ckpt_file, pc, caller, visited_urls, fetch_log,
                 failed_urls, stats, batch_size, max_retries, to_visit, pages,
                 all_chunks, new_chunks, embeddings, embed_stats, insertion_count,
                 mark_i, collection_stats, report, raised_at, chunks, all_embeddings,
                 batch_idx, attempt, runs, calls, attempts_seen, last_attempts, cur,
                 prev>>

\* CheckpointManager(path)
CkptNew ==
    /\ ck_pc = "none"
    /\ processed_hashes' = LoadFrom(disk)
    /\ ck_pc' = "ready"
    /\ ck_last' = "init"
    /\ UNCHANGED <<ingestOther, searchVars, disk, second, u_args, u_result, qdrantVars, threadVars>>

\* mark_processed(h): the set grows and _save_checkpoint writes the file.
MarkSaved(h) ==
    /\ ck_pc = "ready"
    /\ disk.kind # "unreadable"
    /\ processed_hashes' = processed_hashes \cup {h}
    /\ \E l \in ListsOf(processed_hashes') :
          disk' = [kind |-> "file", data |-> json_dump(l)]
    /\ ck_last' = "mark"
    /\ UNCHANGED <<ingestOther, searchVars, ck_pc, second, u_args, u_result, qdrantVars, threadVars>>

\* mark_processed(h): open() raises in _save_checkpoint; logged, not raised.
MarkOpenFails(h) ==
    /\ ck_pc = "ready"
    /\ processed_hashes' = processed_hashes \cup {h}
    /\ ck_last' = "mark"
    /\ UNCHANGED <<ingestOther, searchVars, disk, ck_pc, second, u_args, u_result, qdrantVars, threadVars>>

\* mark_processed(h): open(path, 'w') has truncated the file and the write
\* raises; logged, not raised.
MarkWriteFails(h) ==
    /\ ck_pc = "ready"
    /\ disk.kind # "unreadable"
    /\ processed_hashes' = processed_hashes \cup {h}
    /\ disk' = [kind |-> "file", data |-> [t |-> "garbage"]]
    /\ ck_last' = "mark"
    /\ UNCHANGED <<ingestOther, searchVars, ck_pc, second, u_args, u_result, qdrantVars, threadVars>>

\* clear(): the set is emptied and an existing file is unlinked.
CkptClear ==
    /\ ck_pc = "ready"
    /\ processed_hashes' = {}
    /\ disk' = Missing
    /\ ck_last' = "clear"
    /\ UNCHANGED <<ingestOther, searchVars, ck_pc, second, u_args, u_result, qdrantVars, threadVars>>

\* clear(): the set is emptied and unlink() raises.
CkptClearRaise ==
    /\ ck_pc = "ready"
    /\ disk.kind # "missing"
    /\ processed_hashes' = {}
    /\ ck_pc' = "raised"
    /\ UNCHANGED <<ingestOther, searchVars, disk, ck_last, second, u_args, u_result, qdrantVars, threadVars>>

\* A second CheckpointManager is constructed on the same path.
CkptReopen ==
    /\ ck_pc = "ready"
    /\ second' = LoadFrom(disk)
    /\ ck_pc' = "reopened"
    /\ UNCHANGED <<ingestVars, searchVars, disk, ck_last, u_args, u_result, qdrantVars, threadVars>>

\* A second CheckpointManager is constructed on the path while the first
\* stays in use: two writers.
CkptSecondWriter ==
    /\ ck_pc = "ready"
    /\ second' = LoadFrom(disk)
    /\ ck_pc' = "two_writers"
    /\ UNCHANGED <<ingestVars, searchVars, disk, ck_last, u_args, u_result, qdrantVars, threadVars>>

\* mark_processed(h) on the first of two managers; the write succeeds.
MarkByFirst(h) ==
    /\ ck_pc = "two_writers"
    /\ disk.kind # "unreadable"
    /\ processed_hashes' = processed_hashes \cup {h}
    /\ \E l \in ListsOf(processed_hashes') :
          disk' = [kind |-> "file", data |-> json_dump(l)]
    /\ ck_last' = "mark_by_first"
    /\ UNCHANGED <<ingestOther, searchVars, ck_pc, second, u_args, u_result, qdrantVars, threadVars>>

\* mark_processed(h) on the second of two managers; the write succeeds.
MarkBySecond(h) ==
    /\ ck_pc = "two_writers"
    /\ disk.kind # "unreadable"
    /\ second' = second \cup {h}
    /\ \E l \in ListsOf(second') :
          disk' = [kind |-> "file", data |-> json_dump(l)]
    /\ ck_last' = "mark_by_second"
    /\ UNCHANGED <<ingestVars, searchVars, ck_pc, u_args, u_result, qdrantVars, threadVars>>

NextCkpt ==
    \/ CkptNew
    \/ \E h \in {HashA, HashB} : MarkSaved(h)
    \/ \E h \in {HashA, HashB} : MarkOpenFails(h)
    \/ \E h \in {HashA, HashB} : MarkWriteFails(h)
    \/ CkptClear
    \/ CkptClearRaise
    \/ CkptReopen
    \/ CkptSecondWriter
    \/ \E h \in {HashA, HashB} : MarkByFirst(h)
    \/ \E h \in {HashA, HashB} : MarkBySecond(h)

SpecCkpt == InitCkpt /\ [][NextCkpt]_vars

\* ------------------------------------------- generate_point_id on its own
\* Texts and URLs made of a letter and the separator of the hashed string.
IdStrings == UNION {[1..n -> {"a", ":"}] : n \in 0..MaxLen}

IdleButUnit ==
    /\ index = {}
    /\ collection_exists = FALSE
    /\ ckpt_file = NoFile
    /\ caller = "direct"
    /\ processed_hashes = {}
    /\ visited_urls = {}
    /\ fetch_log = <<>>
    /\ failed_urls = <<>>
    /\ stats = NoStats
    /\ batch_size = Min(CfgBatchSize, BatchCap)
    /\ max_retries = CfgMaxRetries
    /\ to_visit = <<>>
    /\ pages = <<>>
    /\ all_chunks = <<>>
    /\ new_chunks = <<>>
    /\ embeddings = <<>>
    /\ embed_stats = get_stats(NoStats)
    /\ insertion_count = 0
    /\ mark_i = 0
    /\ collection_stats = NoCollectionStats
    /\ report = NoReport
    /\ raised_at = "none"
    /\ chunks = <<>>
    /\ all_embeddings = <<>>
    /\ batch_idx = 0
    /\ attempt = 0
    /\ runs = 0
    /\ calls = 0
    /\ attempts_seen = <<>>
    /\ last_attempts = <<>>
    /\ cur = NoRun
    /\ prev = NoPrev
    /\ SearchIdle
    /\ QdrantIdle
    /\ ThreadsIdle
    /\ disk = Missing
    /\ ck_pc = "none"
    /\ ck_last = "none"
    /\ second = {}

\* Two (text, url) pairs for which a point id is about to be generated.
InitPointId ==
    /\ IdleButUnit
    /\ pc = "point_id"
    /\ u_args \in [text1 : IdStrings, url1 : IdStrings, text2 : IdStrings, url2 : IdStrings]
    /\ u_result = NoResult

\* generate_point_id is called for the first pair, for the second, and for
\* the first again.
PointIdCalls ==
    /\ pc = "point_id"
    /\ ~ u_result.done
    /\ u_result' = [done |-> TRUE,
                    id1 |-> generate_point_id(u_args.text1, u_args.url1),
                    id2 |-> generate_point_id(u_args.text2, u_args.url2),
                    again1 |-> generate_point_id(u_args.text1, u_args.url1)]
    /\ UNCHANGED <<ingestVars, searchVars, disk, ck_pc, ck_last, second, u_args, qdrantVars, threadVars>>

NextPointId == PointIdCalls

SpecPointId == InitPointId /\ [][NextPointId]_vars

\* --------------------------------------------------- chunk_text on its own
\* The metadata a page can come with.
PageMetas == [url : Urls, page_title : {"home", "x"}, section_headers : {<<>>, <<"h1">>}]

\* The parts the splitter can cut a text into.
PartLists == UNION {[1..n -> Texts] : n \in 0..MaxLen}

\* One text that is about to be chunked under two sets of metadata.
InitChunker ==
    /\ IdleButUnit
    /\ pc = "chunker"
    /\ u_args \in [text : PartLists, m1 : PageMetas, m2 : PageMetas]
    /\ u_result = NoResult

\* chunk_text is called on the text with the first metadata and with the
\* second.
ChunkCalls ==
    /\ pc = "chunker"
    /\ ~ u_result.done
    /\ u_result' =
          [done |-> TRUE,
           out1 |-> chunk_text(u_args.text, u_args.m1.url, u_args.m1.page_title,
                               u_args.m1.section_headers),
           out2 |-> chunk_text(u_args.text, u_args.m2.url, u_args.m2.page_title,
                               u_args.m2.section_headers)]
    /\ UNCHANGED <<ingestVars, searchVars, disk, ck_pc, ck_last, second, u_args, qdrantVars, threadVars>>

NextChunker == ChunkCalls

SpecChunker == InitChunker /\ [][NextChunker]_vars

\* ------------------------------------------------ embed_query on its own
\* Queries made of a blank, a letter of a stored text and another letter.
DirectQueries == UNION {[1..n -> {" ", "a", "r"}] : n \in 0..MaxLen}

\* A QueryEmbedder constructed on its own.
InitQuery ==
    /\ IdleButUnit
    /\ pc = "query_embedder"
    /\ u_args = <<>>
    /\ u_result = NoResult

\* embed_query(q) is called.
EmbedQueryCall(q) ==
    /\ caller = "direct"
    /\ s_pc \in {"none", "returned", "raised"}
    /\ searches < MaxSearches
    /\ searches' = searches + 1
    /\ query' = q
    /\ q_attempt' = 0
    /\ query_embedding' = <<>>
    /\ exception' = "none"
    /\ embed_requests' = 0
    /\ failure' = "none"
    /\ s_pc' = "embed_query"
    /\ UNCHANGED <<unitVars, ingestVars, top_k, similarity_threshold, search_results,
                   response, index_requests>>

NextQuery ==
    \/ \E q \in DirectQueries : EmbedQueryCall(q)
    \/ EmbedQueryBlank
    \/ EmbedQueryAttemptOk
    \/ EmbedQueryAttemptFail

SpecQuery == InitQuery /\ [][NextQuery]_vars

\* ------------------------------------- initialize_collection on its own
\* The payload fields _create_indexes asks an index for.
IndexedFields == {"source_url", "chunk_id"}

\* How the two create_payload_index requests of one call end.
IndexOutcomes == [IndexedFields -> {"created", "raised"}]

\* A QdrantManager constructed on a server that has no collection yet, or
\* has one with some points and some payload indexes.
InitQdrant ==
    /\ \/ /\ collection_exists = FALSE
          /\ index = {}
          /\ payload_indexes = {}
       \/ /\ collection_exists = TRUE
          /\ index \in SearchIndexes
          /\ payload_indexes \in SUBSET IndexedFields
    /\ create_requests = 0
    /\ index_raised = {}
    /\ qd_last = "none"
    /\ ThreadsIdle
    /\ ckpt_file = NoFile
    /\ pc = "qdrant"
    /\ caller = "direct"
    /\ processed_hashes = {}
    /\ visited_urls = {}
    /\ fetch_log = <<>>
    /\ failed_urls = <<>>
    /\ stats = NoStats
    /\ batch_size = Min(CfgBatchSize, BatchCap)
    /\ max_retries = CfgMaxRetries
    /\ to_visit = <<>>
    /\ pages = <<>>
    /\ all_chunks = <<>>
    /\ new_chunks = <<>>
    /\ embeddings = <<>>
    /\ embed_stats = get_stats(NoStats)
    /\ insertion_count = 0
    /\ mark_i = 0
    /\ collection_stats = NoCollectionStats
    /\ report = NoReport
    /\ raised_at = "none"
    /\ chunks = <<>>
    /\ all_embeddings = <<>>
    /\ batch_idx = 0
    /\ attempt = 0
    /\ runs = 0
    /\ calls = 0
    /\ attempts_seen = <<>>
    /\ last_attempts = <<>>
    /\ cur = NoRun
    /\ prev = NoPrev
    /\ SearchIdle
    /\ disk = Missing
    /\ ck_pc = "none"
    /\ ck_last = "none"
    /\ second = {}
    /\ u_args = <<>>
    /\ u_result = NoResult

qdrantOther == <<ckpt_file, pc, caller, processed_hashes, visited_urls, fetch_log,
                 failed_urls, stats, batch_size, max_retries, to_visit, pages,
                 all_chunks, new_chunks, embeddings, embed_stats, insertion_count,
                 mark_i, collection_stats, report, raised_at, chunks, all_embeddings,
                 batch_idx, attempt, runs, attempts_seen, last_attempts, cur, prev,
                 searchVars, disk, ck_pc, ck_last, second, u_args, u_result,
                 threadVars>>

\* Variant: create_collection is requested without asking whether the
\* collection exists.
InitializeCollection_AlwaysCreates(outcome) ==
    /\ pc = "qdrant"
    /\ calls < MaxCalls
    /\ calls' = calls + 1
    /\ create_requests' = create_requests + 1
    /\ collection_exists' = TRUE
    /\ index' = index
    /\ payload_indexes' = payload_indexes \cup {f \in IndexedFields : outcome[f] = "created"}
    /\ index_raised' = {f \in IndexedFields : outcome[f] = "raised"}
    /\ qd_last' = "returned"
    /\ UNCHANGED qdrantOther

\* initialize_collection returns: the collection is created when it is
\* absent, then an index is requested for each field; a request that raises
\* is passed over.
InitializeCollection(outcome) ==
    /\ pc = "qdrant"
    /\ calls < MaxCalls
    /\ calls' = calls + 1
    /\ create_requests' = IF collection_exists THEN create_requests
                                               ELSE create_requests + 1
    /\ collection_exists' = TRUE
    /\ index' = index
    /\ payload_indexes' = payload_indexes \cup {f \in IndexedFields : outcome[f] = "created"}
    /\ index_raised' = {f \in IndexedFields : outcome[f] = "raised"}
    /\ qd_last' = "returned"
    /\ UNCHANGED qdrantOther

\* initialize_collection raises: collection_exists raised, or
\* create_collection raised, with the collection created or not.
InitializeCollectionRaise(at, created) ==
    /\ pc = "qdrant"
    /\ calls < MaxCalls
    /\ calls' = calls + 1
    /\ IF at = "collection_exists"
         THEN /\ ~ created
              /\ UNCHANGED <<create_requests, collection_exists>>
         ELSE /\ ~ collection_exists
              /\ create_requests' = create_requests + 1
              /\ collection_exists' = created
    /\ index_raised' = {}
    /\ qd_last' = "raised"
    /\ UNCHANGED <<index, payload_indexes, qdrantOther>>

NextQdrant ==
    \/ \E outcome \in IndexOutcomes : InitializeCollection(outcome)
    \/ \E at \in {"collection_exists", "create_collection"}, created \in BOOLEAN :
          InitializeCollectionRaise(at, created)

SpecQdrant == InitQdrant /\ [][NextQdrant]_vars

\* -------------------------------------------- validate_metadata on its own
required_metadata_fields == <<"source_url", "page_title", "section_headers", "chunk_index">>

\* result.get("metadata", {})
MetadataOf(result) ==
    IF "metadata" \in DOMAIN result THEN result.metadata ELSE [f \in {} |-> f]

\* The keys of the metadata whose value is None; a result that does not say
\* has none.
NoneFields(result) == IF "is_none" \in DOMAIN result THEN result.is_none ELSE {}

\* not metadata[field], for a value that is not None
Falsy(field, v) ==
    CASE field = "page_title" -> v = ""
      [] field = "chunk_index" -> v = 0
      [] OTHER -> v = <<>>

Issue(idx, kind, field) == [result |-> idx, kind |-> kind, field |-> field]

\* Variant: chunk_index goes through the falsy test of the other fields.
FieldIssues_FalsyIndex(idx, result, field) ==
    IF field \notin DOMAIN MetadataOf(result)
      THEN <<Issue(idx, "missing field", field)>>
    ELSE IF field \in NoneFields(result) \/ Falsy(field, MetadataOf(result)[field])
      THEN <<Issue(idx, "empty", field)>>
    ELSE <<>>

\* The body of the loop over the required fields: the issues one field of
\* one result adds to the report.
FieldIssues(idx, result, field) ==
    IF field \notin DOMAIN MetadataOf(result)
      THEN <<Issue(idx, "missing field", field)>>
    ELSE IF field = "chunk_index"
      THEN IF field \in NoneFields(result)
             THEN <<Issue(idx, "empty", field)>>
             ELSE <<>>
    ELSE IF field \in NoneFields(result) \/ Falsy(field, MetadataOf(result)[field])
      THEN <<Issue(idx, "empty", field)>>
    ELSE <<>>

\* The issues of one result, in the order of the required fields.
ResultIssues(idx, result) ==
    Flatten([k \in 1..Len(required_metadata_fields) |->
                FieldIssues(idx, result, required_metadata_fields[k])])

validate_metadata(results) ==
    LET per == [i \in 1..Len(results) |-> ResultIssues(i - 1, results[i])]
    IN [total_results |-> Len(results),
        valid_results |-> Cardinality({i \in 1..Len(results) : per[i] = <<>>}),
        invalid_results |-> Cardinality({i \in 1..Len(results) : per[i] # <<>>}),
        issues |-> Flatten(per)]

\* Metadata dictionaries: any of source_url, section_headers and chunk_index
\* may be missing, source_url and page_title may be empty, chunk_index may
\* be 0, -1 or None.
SampleResults ==
    {[metadata |-> [f \in keys |->
                       CASE f = "source_url" -> su
                         [] f = "page_title" -> pt
                         [] f = "section_headers" -> <<"h1">>
                         [] OTHER -> ci],
      is_none |-> nf] :
        keys \in {k \in SUBSET Range(required_metadata_fields) : "page_title" \in k},
        su \in {<<>>, UrlX}, pt \in {"", "x"}, ci \in {0, -1},
        nf \in {{}, {"chunk_index"}}}

\* A result without a metadata key next to the well-formed samples: those
\* whose None key is present and has one placeholder value.
ResultSamples ==
    {[is_none |-> {}]} \cup
    {r \in SampleResults :
        /\ r.is_none \subseteq DOMAIN r.metadata
        /\ r.is_none # {} => r.metadata["chunk_index"] = 0}

ResultLists == UNION {[1..n -> ResultSamples] : n \in 0..MaxLen}

\* A result list that is about to be validated.
InitValidate ==
    /\ IdleButUnit
    /\ pc = "validate_metadata"
    /\ u_args \in ResultLists
    /\ u_result = NoResult

\* validate_metadata(results) returns its report.
ValidateCall ==
    /\ pc = "validate_metadata"
    /\ ~ u_result.done
    /\ u_result' = [done |-> TRUE, report |-> validate_metadata(u_args)]
    /\ UNCHANGED <<ingestVars, searchVars, disk, ck_pc, ck_last, second, u_args, qdrantVars, threadVars>>

NextValidate == ValidateCall

SpecValidate == InitValidate /\ [][NextValidate]_vars

\* ------------------------------- validate_metadata on the output of search
\* The caller hands the results of a successful search to
\* validate_metadata; the points the results were built from are kept
\* next to the report.
ValidateResponse ==
    /\ pc = "retriever"
    /\ s_pc = "returned"
    /\ response.status = "success"
    /\ ~ u_result.done
    /\ u_result' = [done |-> TRUE,
                    hits |-> SelectSeq(search_results,
                                       LAMBDA p : Keep(p, similarity_threshold)),
                    results |-> response.results,
                    report |-> validate_metadata(response.results)]
    /\ UNCHANGED <<ingestVars, searchVars, disk, ck_pc, ck_last, second, u_args, qdrantVars, threadVars>>

NextReport ==
    \/ \E q \in Queries, k \in TopKs, t \in Thresholds : SearchCall(q, k, t)
    \/ SearchValidate
    \/ EmbedQueryBlank
    \/ EmbedQueryAttemptOk
    \/ EmbedQueryAttemptFail
    \/ QueryPointsOk
    \/ QueryPointsRaise
    \/ FormatResults
    \/ ValidateResponse

SpecReport == InitSearch /\ [][NextReport]_vars

\* ------------------------------------------------------------ properties
\* Every chunk the chunker can produce from the site.
SiteChunks ==
    UNION {Range(chunk_text(SitePage(u).parts, u, SitePage(u).page_title,
                            SitePage(u).section_headers)) : u \in Urls}

PointIdOf(c) == generate_point_id(c.text, c.metadata.source_url)

Stored(c) == \E p \in index : p.id = PointIdOf(c)

\* The checkpoint set, in memory and on disk.
CheckpointSet == processed_hashes \cup ckpt_file.processed_hashes

\* C1: every hash in the checkpoint set is the hash of a chunk whose own
\* point is stored in the index.
C1_CheckpointedChunkIsStored ==
    \A h \in CheckpointSet : \E c \in SiteChunks : c.hash = h /\ Stored(c)

\* C2: when upsert_embeddings raised, run() is left by that exception, no
\* chunk has been marked, and the checkpoint in memory and on disk is what
\* it was when the upsert stage started.
C2_UpsertFailureKeepsCheckpoint ==
    (raised_at = "upsert_embeddings") =>
        /\ pc = "raised"
        /\ mark_i = 0
        /\ processed_hashes = cur.ckpt_before_upsert.mem
        /\ ckpt_file = cur.ckpt_before_upsert.file

\* Reached: the upsert of a run with new chunks raised while the checkpoint
\* already held hashes of an earlier run.
C2_Witness ==
    /\ pc = "raised"
    /\ raised_at = "upsert_embeddings"
    /\ new_chunks # <<>>
    /\ processed_hashes # {}
    /\ ckpt_file.exists

\* A run of a new pipeline, started without clear_checkpoint, that follows a
\* run killed after EMBED and before upsert_embeddings returned.
FollowsKilledRun ==
    /\ prev.in_window
    /\ cur.fresh
    /\ ~ cur.clear
    /\ cur.outcome \in {"running", "done", "raised"}

\* No fetch and no embedding batch of the current run has failed.
CleanRun == cur.fetch_errors = {} /\ ~ cur.batch_failed

\* C3: between EMBED and the return of the upsert the checkpoint file is the
\* one the run found; the run that follows a run killed there (every call of
\* it succeeding) embeds and writes every chunk of the killed run's new set,
\* with its own vector, and neither embeds nor writes a chunk whose hash was
\* already in the checkpoint file.
C3_ResumeAfterKill ==
    /\ (pc \in Window => ckpt_file = cur.ckpt_at_filter)
    /\ (FollowsKilledRun /\ CleanRun /\ pc = "done") =>
          \A k \in prev.new :
              /\ k \in cur.embedded
              /\ generate_point_id(k[2], k[1]) \in cur.written
              /\ \E p \in index : /\ p.id = generate_point_id(k[2], k[1])
                                  /\ p.vector = EmbeddingOf(k[2])
    /\ (FollowsKilledRun /\ cur.filtered) =>
          \A c \in SiteChunks :
              c.hash \in cur.ckpt_at_filter.processed_hashes =>
                  /\ ChunkKey(c) \notin cur.embedded
                  /\ PointIdOf(c) \notin cur.written

\* Reached: the following run returned its report, the killed run had new
\* chunks and the checkpoint file already held hashes.
C3_Witness ==
    /\ pc = "done"
    /\ FollowsKilledRun
    /\ CleanRun
    /\ prev.new # {}
    /\ cur.ckpt_at_filter.processed_hashes # {}
    /\ cur.written # {}

\* The run before the current one was the run of a new pipeline that
\* returned its report with every fetch and every embedding batch
\* succeeding, and the current run was started without clear_checkpoint.
SecondOfTwoRuns ==
    /\ prev.outcome = "done"
    /\ prev.fresh
    /\ prev.clean
    /\ ~ cur.clear
    /\ cur.outcome \in {"running", "done", "raised"}

C5_OnePointPerChunk ==
    \A p, q \in index :
        (/\ p.payload.source_url = q.payload.source_url
         /\ p.payload.chunk_text = q.payload.chunk_text) => p = q

\* Reached: a run has written a point whose chunk was stored before.
C5_Witness ==
    /\ pc = "upsert_wait"
    /\ cur.overwritten # {}

\* C6: when embed_chunks has returned, the vector at each position of its
\* output is the embedding of the input text at that position.
C6_OutputAlignedWithInput ==
    (pc = "returned") =>
        \A i \in 1..Len(embeddings) :
            i <= Len(chunks) /\ embeddings[i] = EmbeddingOf(chunks[i])

\* C7: every stored point carries the embedding of its own chunk_text.
C7_PointCarriesOwnEmbedding ==
    \A p \in index : p.vector = EmbeddingOf(p.payload.chunk_text)

\* The batch is at its last attempt and every earlier attempt ended in `kind`.
LastAttemptAfterOnly(kind) ==
    /\ InRetryLoop
    /\ attempt = max_retries - 1
    /\ \A i \in 1..Len(attempts_seen) : attempts_seen[i] = kind

\* C8: when the last of max_retries rate-limited attempts of a batch ends,
\* the failed counter grows by the batch's size, the output is unchanged and
\* the loop is at the next batch.
C8_RateLimitedBatchCounted ==
    [][(LastAttemptAfterOnly("rate_limit") /\ EmbedAttemptRateLimit) =>
          /\ stats'.failed = stats.failed + Len(Batch)
          /\ all_embeddings' = all_embeddings
          /\ batch_idx' = batch_idx + batch_size
          /\ pc' = "embed_batch"]_vars

\* C9: when the last of max_retries attempts of a batch that all failed with
\* another error ends, nothing is raised, the failed counter grows by the
\* batch's size, the first min(5, size) texts of the batch are appended to
\* the failed sample, and the loop is at the next batch.
C9_ErrorBatchCountedAndSampled ==
    [][(LastAttemptAfterOnly("error") /\ EmbedAttemptError) =>
          /\ pc' = "embed_batch"
          /\ raised_at' = "none"
          /\ stats'.failed = stats.failed + Len(Batch)
          /\ stats'.failed_chunks =
                 stats.failed_chunks \o SubSeq(Batch, 1, Min(5, Len(Batch)))
          /\ Len(stats'.failed_chunks) <= Len(stats.failed_chunks) + 5
          /\ all_embeddings' = all_embeddings
          /\ batch_idx' = batch_idx + batch_size]_vars

\* Reached: a batch of more than five texts has failed with errors only and
\* five of its texts were sampled, while a later batch is still to be sent.
C9_Witness ==
    /\ pc = "embed_batch"
    /\ batch_idx < Len(chunks)
    /\ Len(last_attempts) = max_retries
    /\ \A i \in 1..Len(last_attempts) : last_attempts[i] = "error"
    /\ stats.failed = FailedSample + 1
    /\ Len(stats.failed_chunks) = FailedSample

\* A step of run() other than an exception of a vector-index call.
RunStep ==
    \/ CrawlSkipVisited \/ CrawlFetchOk \/ CrawlFetchError \/ CrawlReturn
    \/ StageChunk \/ StageFilter \/ StageEmbedCall \/ StageEmbedSkip
    \/ EmbedAttemptOk \/ EmbedAttemptRateLimit \/ EmbedAttemptError \/ EmbedReturn
    \/ StageEnsure \/ UpsertSkip \/ UpsertWrite \/ UpsertAck
    \/ MarkProcessed \/ MarkDone \/ StageVerify \/ StageReport

C11_VerifyDoesNotGate ==
    (cur.written # {} /\ insertion_count > 0 /\ raised_at = "get_collection_stats")
        => pc # "raised"

\* The stage a position of run() belongs to, in the order of the code.
StageRank(p) ==
    CASE p = "crawl" -> 1
      [] p = "chunk" -> 2
      [] p = "filter" -> 3
      [] p \in {"embed", "embed_batch"} -> 4
      [] p = "ensure" -> 5
      [] p \in {"upsert", "upsert_wait", "mark"} -> 6
      [] p = "verify" -> 7
      [] p = "report" -> 8
      [] OTHER -> 0

\* The chunks of the current run that passed the checkpoint filter.
PassedFilter(c) ==
    /\ c \in Range(all_chunks)
    /\ c.hash \notin cur.ckpt_at_filter.processed_hashes

\* C12: within one run a step stays in its stage or enters the next one, a
\* run is entered at CRAWL only, and what EMBED is handed and what UPSERT
\* writes comes from chunks that passed the checkpoint filter.
C12_StagesInOrder ==
    [][ /\ (Running /\ Running' /\ runs' = runs) =>
               StageRank(pc') \in {StageRank(pc), StageRank(pc) + 1}
        /\ (runs' # runs) => (pc' = "crawl" /\ ~ Running)
        /\ (Running' /\ ~ Running) => runs' = runs + 1
        /\ (pc' = "embed_batch" /\ caller' = "run") =>
               /\ Len(chunks') = Len(new_chunks')
               /\ \A i \in 1..Len(chunks') :
                      chunks'[i] = new_chunks'[i].text /\ PassedFilter(new_chunks[i])'
        /\ index' # index =>
               /\ pc = "upsert"
               /\ \A p \in index' \ index :
                      \E c \in Range(new_chunks) : PassedFilter(c) /\ p.id = PointIdOf(c)
      ]_vars

\* Reached: a run in which the filter dropped chunks wrote the rest and
\* returned its report.
C12_Witness ==
    /\ pc = "done"
    /\ cur.written # {}
    /\ Len(new_chunks) < Len(all_chunks)

\* A step of a search call that is in progress.
SearchStep ==
    \/ SearchValidate \/ EmbedQueryBlank \/ EmbedQueryAttemptOk \/ EmbedQueryAttemptFail
    \/ QueryPointsOk \/ QueryPointsRaise \/ FormatResults

SearchEnded == s_pc \in {"returned", "raised"}

Succeeded == s_pc = "returned" /\ response.status = "success"

C15_RangeCheckedBeforeAnyCall ==
    [][ /\ (s_pc = "validate" /\ ~ ValidArgs(top_k, similarity_threshold)) =>
               /\ s_pc' = "raised"
               /\ exception' = "ValueError"
               /\ top_k' = top_k
               /\ similarity_threshold' = similarity_threshold
               /\ embed_requests' = 0
               /\ index_requests' = <<>>
               /\ response' = NoResponse
        /\ (s_pc = "validate" /\ ValidArgs(top_k, similarity_threshold)) =>
               /\ top_k' = top_k
               /\ similarity_threshold' = similarity_threshold
        /\ (s_pc # "validate" /\ s_pc' # "validate"
              /\ (embed_requests' # embed_requests \/ index_requests' # index_requests)) =>
               /\ ValidArgs(top_k, similarity_threshold)
               /\ top_k' = top_k
               /\ \A i \in 1..Len(index_requests') : index_requests'[i].limit = top_k
        /\ (s_pc = "raised" /\ s_pc' # "validate") => s_pc' = "raised"
      ]_vars

\* Reached: a call with top_k = 101 was rejected.
C15_Witness ==
    /\ s_pc = "raised"
    /\ top_k = TopKMax + 1
    /\ exception = "ValueError"
    /\ embed_requests = 0

\* C16 (as stated): a search with a blank query and arguments in range is
\* left by a raised validation error.
C16_BlankQueryRaises ==
    (SearchEnded /\ IsBlank(query) /\ ValidArgs(top_k, similarity_threshold)) =>
        (s_pc = "raised" /\ exception = "ValueError")

\* The points of the index's answer at or above the threshold, in order.
KeptHits ==
    SelectSeq(search_results, LAMBDA h : h.score >= similarity_threshold)

\* C17: the results of a successful search are the points of the index's
\* answer whose score is at least the threshold, in the answer's order, and
\* total_results is their number.
C17_ResultsAreKeptHits ==
    Succeeded =>
        /\ Len(response.results) = Len(KeptHits)
        /\ response.total_results = Len(KeptHits)
        /\ \A i \in 1..Len(KeptHits) :
               /\ response.results[i].chunk_id = Str(KeptHits[i].id)
               /\ response.results[i].similarity_score = KeptHits[i].score
               /\ response.results[i].chunk_text
                      = PayloadGet(KeptHits[i].payload, "chunk_text", <<>>)

\* Reached: a successful search kept a point scoring exactly the threshold
\* and dropped a point below it.
C17_Witness ==
    /\ Succeeded
    /\ \E i \in 1..Len(search_results) :
           search_results[i].score = similarity_threshold
    /\ \E i \in 1..Len(search_results) :
           search_results[i].score < similarity_threshold
    /\ response.total_results >= 1

\* C18: in a successful response the i-th result has rank i, and there are
\* total_results results.
C18_RanksDense ==
    Succeeded =>
        /\ Len(response.results) = response.total_results
        /\ \A i \in 1..Len(response.results) : response.results[i].rank = i

\* Reached: a successful search returned two results or more while the
\* threshold dropped a point of the index's answer.
C18_Witness ==
    /\ Succeeded
    /\ Len(response.results) >= 2
    /\ Len(search_results) > Len(response.results)

\* C19: in a returned result list the score never grows from one result to
\* the next.
C19_ScoresNonIncreasing ==
    s_pc = "returned" =>
        \A i, j \in 1..Len(response.results) :
            i < j => response.results[i].similarity_score
                        >= response.results[j].similarity_score

\* Reached: a successful search returned results of different scores.
C19_Witness ==
    /\ Succeeded
    /\ \E i, j \in 1..Len(response.results) :
           response.results[i].similarity_score > response.results[j].similarity_score

\* C20: a successful search returns at most top_k results.
C20_AtMostTopK ==
    Succeeded => Len(response.results) <= top_k

\* Reached: a successful search returned top_k results while more stored
\* points than that score at or above the threshold.
C20_Witness ==
    /\ Succeeded
    /\ Len(response.results) = top_k
    /\ Cardinality({p \in index :
                       Cosine(query_embedding, p.vector) >= similarity_threshold}) > top_k

\* The fields of a payload that search() reads.
ReadFields == {"source_url", "page_title", "section_headers", "chunk_index", "chunk_text"}

\* The value a result carries for a field.
FieldOf(result, field) ==
    IF field = "chunk_text" THEN result.chunk_text ELSE result.metadata[field]

\* The results built from points whose payload lacks one of the fields read.
LacksField(i, field) ==
    /\ i \in 1..Len(KeptHits)
    /\ field \notin DOMAIN KeptHits[i].payload

\* Whether a result value is empty: the empty string or the empty list; a
\* number is not.
IsEmptyValue(field, v) ==
    CASE field = "chunk_index" -> v \notin Int
      [] field = "page_title" -> v = ""
      [] OTHER -> v = <<>>

C22_MarkPersists ==
    (ck_pc = "reopened" /\ ck_last = "mark") => second = processed_hashes

\* What is under the path is a checkpoint as _save_checkpoint writes it.
WellFormed(d) ==
    /\ d.kind = "file"
    /\ d.data.t = "obj"
    /\ d.data.member.m = "list"

\* C23 (as stated): a manager constructed on a path that holds no file, a
\* file that cannot be opened, or a text that is no checkpoint, starts with
\* the empty set.
C23_BadFileStartsEmpty ==
    (ck_pc = "ready" /\ ck_last = "init" /\ ~ WellFormed(disk)) => processed_hashes = {}

\* C24: in a run started with clear_checkpoint, up to the filter no hash is
\* processed, the checkpoint file does not exist and a manager constructed
\* on the path would start empty; the filter then keeps every chunk.
C24_ClearForgetsAll ==
    cur.clear =>
        /\ pc \in {"crawl", "chunk", "filter"} =>
               /\ \A c \in SiteChunks : ~ is_processed(processed_hashes, c.hash)
               /\ ~ ckpt_file.exists
               /\ _load_checkpoint(ckpt_file) = {}
        /\ pc \in {"embed", "embed_batch", "ensure", "upsert", "upsert_wait", "mark",
                    "verify", "report", "done"} =>
               new_chunks = all_chunks

\* Reached: after a run that returned its report, a run of a new pipeline
\* started with clear_checkpoint found the stored chunks new again.
C24_Witness ==
    /\ cur.clear
    /\ prev.outcome = "done"
    /\ pc = "embed"
    /\ new_chunks # <<>>
    /\ \E c \in Range(new_chunks) : Stored(c)

\* C25 (as stated): generate_point_id gives the same id for the same pair
\* and different ids for different (text, url) pairs.
C25_PointIdInjective ==
    (pc = "point_id" /\ u_result.done) =>
        /\ u_result.again1 = u_result.id1
        /\ (<<u_args.text1, u_args.url1>> # <<u_args.text2, u_args.url2>>
               => u_result.id1 # u_result.id2)

\* C26: chunking one text under two sets of metadata gives as many chunks
\* with the same hash at every position, the hash being the digest of the
\* chunk's text alone, and every chunk_id equals the chunk's hash.
C26_HashFromTextOnly ==
    (pc = "chunker" /\ u_result.done) =>
        /\ Len(u_result.out1) = Len(u_result.out2)
        /\ \A i \in 1..Len(u_result.out1) :
               /\ u_result.out1[i].hash = u_result.out2[i].hash
               /\ u_result.out1[i].hash = Sha256(u_result.out1[i].text)
               /\ u_result.out1[i].metadata.chunk_id = u_result.out1[i].hash
               /\ u_result.out2[i].metadata.chunk_id = u_result.out2[i].hash

\* Reached: a text of two chunks was chunked under metadata that differ in
\* URL, title and section headers.
C26_Witness ==
    /\ pc = "chunker"
    /\ u_result.done
    /\ Len(u_result.out1) >= 2
    /\ u_args.m1.url # u_args.m2.url
    /\ u_args.m1.page_title # u_args.m2.page_title
    /\ u_args.m1.section_headers # u_args.m2.section_headers

\* C27: the i-th chunk a chunk_text call returns has chunk_index i - 1, and
\* there is one chunk per part of the text.
C27_ChunkIndexDense ==
    (pc = "chunker" /\ u_result.done) =>
        /\ Len(u_result.out1) = Len(u_args.text)
        /\ \A i \in 1..Len(u_result.out1) :
               u_result.out1[i].metadata.chunk_index = i - 1

\* Reached: a call returned two chunks of the same text.
C27_Witness ==
    /\ pc = "chunker"
    /\ u_result.done
    /\ Len(u_result.out1) >= 2
    /\ u_result.out1[1].text = u_result.out1[2].text
    /\ u_result.out1[2].metadata.chunk_index = 1

\* C28: embed_query called with an empty or whitespace-only query is left
\* by ValueError; the provider is not called and no vector is returned.
C28_BlankQueryRejected ==
    (caller = "direct" /\ IsBlank(query)) =>
        /\ embed_requests = 0
        /\ query_embedding = <<>>
        /\ s_pc = "embed_query" => ENABLED EmbedQueryBlank
        /\ s_pc \notin {"none", "embed_query"} =>
               s_pc = "raised" /\ exception = "ValueError"

\* Reached: embed_query was called with a whitespace-only query and raised.
C28_Witness ==
    /\ caller = "direct"
    /\ query # <<>>
    /\ IsBlank(query)
    /\ s_pc = "raised"
    /\ exception = "ValueError"

\* C29: for a non-blank query embed_query calls the provider once per
\* attempt and at most max_retries times; it returns the vector of the first
\* attempt that succeeds, is left by RuntimeError once max_retries attempts
\* have failed, and calls the provider no more after either.
C29_BoundedRetriesThenHardError ==
    [][ /\ (caller' = "direct" /\ ~ IsBlank(query')) =>
               /\ embed_requests' <= QueryMaxRetries
               /\ s_pc' = "embed_query" =>
                      embed_requests' = q_attempt' /\ q_attempt' < QueryMaxRetries
               /\ s_pc' = "returned" =>
                      /\ query_embedding' = QueryEmbeddingOf(query')
                      /\ embed_requests' = q_attempt' + 1
                      /\ exception' = "none"
               /\ s_pc' = "raised" =>
                      /\ exception' = "RuntimeError"
                      /\ embed_requests' = QueryMaxRetries
                      /\ query_embedding' = <<>>
        /\ (caller = "direct" /\ s_pc \in {"returned", "raised"}) =>
               (s_pc' = "embed_query" /\ embed_requests' = 0)
      ]_vars

\* Reached: the second attempt of embed_query succeeded and the vector was
\* returned.
C29_Witness ==
    /\ caller = "direct"
    /\ s_pc = "returned"
    /\ q_attempt = 1
    /\ embed_requests = 2
    /\ query_embedding = QueryEmbeddingOf(query)

\* C30: the batch size is between 1 and 96; every request carries the texts
\* chunks[batch_idx .. batch_idx + batch_size), at least one and at most
\* batch_size of them; the first batch starts at the first text, the next
\* batch starts where the one before ended, and embed_chunks returns only
\* when the batches have covered the whole input.
C30_ConsecutiveBatches ==
    [][ /\ pc' = "embed_batch" => batch_size' \in 1..BatchCap
        /\ (pc # "embed_batch" /\ pc' = "embed_batch") => batch_idx' = 0
        /\ (pc = "embed_batch" /\ pc' = "embed_batch") =>
               /\ batch_idx < Len(chunks)
               /\ Len(Batch) \in 1..batch_size
               /\ Batch = [i \in 1..Len(Batch) |-> chunks[batch_idx + i]]
               /\ chunks' = chunks
               /\ batch_size' = batch_size
               /\ \/ batch_idx' = batch_idx
                  \/ Min(batch_idx', Len(chunks)) = batch_idx + Len(Batch)
        /\ (pc = "embed_batch" /\ pc' # "embed_batch") => batch_idx >= Len(chunks)
      ]_vars

\* Reached: of BatchCap + 1 texts the first BatchCap were sent as one batch
\* and the last one is about to be sent on its own.
C30_Witness ==
    /\ pc = "embed_batch"
    /\ caller = "direct"
    /\ Len(chunks) = BatchCap + 1
    /\ batch_idx = BatchCap
    /\ Len(all_embeddings) = BatchCap

\* C31: initialize_collection requests create_collection only while the
\* collection is absent; a collection that exists stays, with its points
\* and its payload indexes, and no further create request is issued; a
\* create_payload_index request that raises, as for an index that already
\* exists, leaves the call returning normally.
C31_InitializeIdempotent ==
    [][ /\ create_requests' # create_requests => ~ collection_exists
        /\ collection_exists =>
               /\ collection_exists'
               /\ index' = index
               /\ payload_indexes \subseteq payload_indexes'
        /\ (~ collection_exists /\ qd_last' = "returned") =>
               collection_exists' /\ create_requests' = create_requests + 1
        /\ index_raised' # {} => qd_last' = "returned"
      ]_vars

\* Reached: a second call found the collection with points in it and both
\* indexes in place, both index requests raised and the call returned.
C31_Witness ==
    /\ pc = "qdrant"
    /\ calls = 2
    /\ collection_exists
    /\ index # {}
    /\ create_requests = 0
    /\ payload_indexes = IndexedFields
    /\ index_raised = IndexedFields
    /\ qd_last = "returned"

\* A required field of a result is missing or empty: the key is absent, the
\* value is None, or the value of a field other than chunk_index is the
\* empty string or the empty list.
Offending(result, field) ==
    \/ field \notin DOMAIN MetadataOf(result)
    \/ field \in NoneFields(result)
    \/ /\ field = "page_title"
       /\ MetadataOf(result)[field] = ""
    \/ /\ field \in {"source_url", "section_headers"}
       /\ MetadataOf(result)[field] = <<>>

\* C33: the report counts every result once, as invalid exactly when one of
\* its four required fields is missing or empty, and holds exactly one
\* issue for each offending field of each result, naming the field;
\* chunk_index = 0 is not an offence.
C33_ValidateCountsAndIssues ==
    (pc = "validate_metadata" /\ u_result.done) =>
        LET rep == u_result.report
            n == Len(u_args)
            bad == {i \in 1..n : \E f \in Range(required_metadata_fields) :
                                    Offending(u_args[i], f)}
        IN /\ rep.total_results = n
           /\ rep.valid_results + rep.invalid_results = rep.total_results
           /\ rep.invalid_results = Cardinality(bad)
           /\ \A i \in 1..n : \A f \in Range(required_metadata_fields) :
                 Cardinality({k \in 1..Len(rep.issues) :
                                 /\ rep.issues[k].result = i - 1
                                 /\ rep.issues[k].field = f})
                   = IF Offending(u_args[i], f) THEN 1 ELSE 0

\* Reached: a list was validated whose first result is complete with
\* chunk_index = 0 and whose second result has an empty source_url.
C33_Witness ==
    /\ pc = "validate_metadata"
    /\ u_result.done
    /\ Len(u_args) = 2
    /\ DOMAIN MetadataOf(u_args[1]) = Range(required_metadata_fields)
    /\ u_args[1].is_none = {}
    /\ u_args[1].metadata["chunk_index"] = 0
    /\ "source_url" \in DOMAIN MetadataOf(u_args[2])
    /\ u_args[2].metadata["source_url"] = <<>>
    /\ u_result.report.valid_results = 1
    /\ u_result.report.invalid_results = 1

\* A point's payload lacks one of the four required metadata fields.
LacksRequired(point) ==
    \E f \in Range(required_metadata_fields) : f \notin DOMAIN point.payload

\* C38 (as stated): every result built from a point whose payload lacks a
\* required metadata field has an issue in the report validate_metadata
\* gives for the results of the search, and so is counted as invalid.
C38_LackingHitsReported ==
    (pc = "retriever" /\ u_result.done) =>
        /\ Len(u_result.results) = Len(u_result.hits)
        /\ \A i \in 1..Len(u_result.hits) :
               LacksRequired(u_result.hits[i]) =>
                   \E k \in 1..Len(u_result.report.issues) :
                       u_result.report.issues[k].result = i - 1
        /\ u_result.report.invalid_results >=
               Cardinality({i \in 1..Len(u_result.hits) : LacksRequired(u_result.hits[i])})

\* The internal URLs reachable from a set of URLs by the links of the site.
RECURSIVE LinkClosure(_)
LinkClosure(us) ==
    LET more == us \cup UNION {Range(SitePage(u).links) : u \in us}
    IN IF more = us THEN us ELSE LinkClosure(more)

NoRepeat(s) == \A i, j \in 1..Len(s) : i # j => s[i] # s[j]

\* C40: a crawler requests no URL twice, and so makes at most as many
\* requests as there are URLs reachable from the base URL; a URL whose fetch
\* raised is in failed_urls once, the loop goes on with the rest of the
\* queue, and when crawl() returns every link of every page it kept has
\* been requested.
C40_EachUrlFetchedOnce ==
    [][ /\ NoRepeat(fetch_log')
        /\ Len(fetch_log') <= Cardinality(LinkClosure({BaseUrl}))
        /\ NoRepeat([i \in 1..Len(failed_urls') |-> failed_urls'[i].url])
        /\ \A i \in 1..Len(failed_urls') : failed_urls'[i].url \in Range(fetch_log')
        /\ (pc = "crawl" /\ Len(failed_urls') > Len(failed_urls)) =>
               pc' = "crawl" /\ to_visit' = Tail(to_visit)
        /\ (pc = "crawl" /\ pc' = "chunk") =>
               /\ to_visit = <<>>
               /\ \A i \in 1..Len(pages) :
                      Range(SitePage(pages[i].url).links) \subseteq Range(fetch_log)
      ]_vars

\* Reached: crawl() returned after the fetch of the second of three URLs
\* raised and the third was fetched all the same.
C40_Witness ==
    /\ pc = "chunk"
    /\ fetch_log = <<BaseUrl, UrlX, UrlY>>
    /\ Len(failed_urls) = 1
    /\ failed_urls[1].url = UrlX
    /\ Len(pages) = 1

\* C39 (as stated): whenever embed_chunks has returned, the statistics of
\* the embedder satisfy successful + failed <= total_chunks and the success
\* rate lies between 0 and 1.
C39_StatsWithinTotal ==
    (pc = "returned") =>
        /\ stats.successful + stats.failed <= stats.total_chunks
        /\ 0 <= success_rate(stats).num
        /\ success_rate(stats).num <= success_rate(stats).den

\* C37: a call of embed_chunks returns; the provider is called for a batch
\* only while fewer than max_retries attempts were made for it; the attempt
\* that succeeds, whatever failed before it, appends the batch's vectors
\* once, adds the batch's size to the successful counter and moves the loop
\* to the next batch.
C37_TerminatesWithBoundedAttempts ==
    /\ [][ /\ (pc = "embed_batch" /\ pc' = "embed_batch") =>
                  /\ Len(attempts_seen) = attempt
                  /\ attempt < max_retries
                  /\ Len(last_attempts') <= max_retries
           /\ (InRetryLoop /\ EmbedAttemptOk) =>
                  /\ all_embeddings' =
                         all_embeddings \o
                           [i \in 1..Len(Batch) |-> EmbeddingOf(chunks[batch_idx + i])]
                  /\ stats'.successful = stats.successful + Len(Batch)
                  /\ batch_idx' = batch_idx + batch_size
                  /\ last_attempts' = Append(attempts_seen, "ok")
         ]_vars
    /\ (pc = "embed_batch") ~> (pc = "returned")

\* Reached: embed_chunks returned the vectors of a batch that was rate
\* limited on its first attempt and succeeded on its second.
C37_Witness ==
    /\ pc = "returned"
    /\ last_attempts = <<"rate_limit", "ok">>
    /\ chunks # <<>>
    /\ Len(embeddings) = Len(chunks)
    /\ stats.successful = Len(chunks)

\* C36 (as stated, single writer): while one manager alone uses the path,
\* every hash it holds after a mark_processed call is in the persisted file.
C36_SingleWriterKeepsAll ==
    (ck_pc = "ready" /\ ck_last = "mark") => processed_hashes \subseteq LoadFrom(disk)

\* The lost update of C36: of two managers loaded from the same file each
\* has marked a hash, every write succeeded, and the file lacks the hash the
\* first one marked.
C36_LostUpdate ==
    /\ ck_pc = "two_writers"
    /\ ck_last = "mark_by_second"
    /\ HashA \in processed_hashes
    /\ HashB \in second
    /\ HashA \notin LoadFrom(disk)

\* C35 (as stated): right after the filter of a run, every chunk of the
\* crawl that the filter dropped has its own point, the one whose id comes
\* from the chunk's text and source_url, in the index.
C35_DroppedChunksStored ==
    (pc = "embed" /\ cur.filtered) =>
        \A i \in 1..Len(all_chunks) :
            ChunkKey(all_chunks[i]) \notin cur.new => Stored(all_chunks[i])

\* ------------------------------------------------ repeated ingestion runs
\* main() invoked once more after the last counted run has finished: a new
\* IngestionPipeline loads the checkpoint file and run() starts without
\* clear_checkpoint.
RerunStart ==
    /\ pc = "done"
    /\ runs = MaxRuns
    /\ processed_hashes' = _load_checkpoint(ckpt_file)
    /\ visited_urls' = {}
    /\ fetch_log' = <<>>
    /\ failed_urls' = <<>>
    /\ stats' = NoStats
    /\ batch_size' = Min(CfgBatchSize, BatchCap)
    /\ max_retries' = CfgMaxRetries
    /\ ResetLocals
    /\ to_visit' = <<BaseUrl>>
    /\ pc' = "crawl"
    /\ prev' = Summary(cur)
    /\ cur' = [NoRun EXCEPT !.outcome = "running", !.fresh = TRUE, !.clear = FALSE]
    /\ UNCHANGED <<unitVars, searchVars, worldVars, caller, runs, calls>>

\* The runs before the last counted one: embedding requests may still fail
\* in them.
EarlyRun == runs < MaxRuns

\* Runs without clear_checkpoint over unchanged content: every fetch and
\* every index call succeeds, the process is never killed, and from run
\* MaxRuns onward every embedding request succeeds as well.
NextRerun ==
    \/ NewPipeline
    \/ RunStart(FALSE)
    \/ RerunStart
    \/ CrawlSkipVisited
    \/ CrawlFetchOk
    \/ CrawlReturn
    \/ StageChunk
    \/ StageFilter
    \/ StageEmbedCall
    \/ StageEmbedSkip
    \/ EmbedAttemptOk
    \/ EarlyRun /\ EmbedAttemptRateLimit
    \/ EarlyRun /\ EmbedAttemptError
    \/ EmbedReturn
    \/ StageEnsure
    \/ UpsertSkip
    \/ UpsertWrite
    \/ UpsertAck
    \/ MarkProcessed
    \/ MarkDone
    \/ StageVerify
    \/ StageReport

\* The operator keeps starting runs and every started step completes.
SpecRerun == Init /\ [][NextRerun]_vars /\ WF_vars(NextRerun)

\* C34 (as stated): repeated runs without clear_checkpoint, the later ones
\* free of failures, eventually reach a state in which every chunk of the
\* content has its point in the index.
C34_EventuallyAllStored ==
    <>(\A c \in SiteChunks : Stored(c))

\* ------------------------------- concurrent search() calls on one client
\* The dictionary built by the except branch of search() from its parameters.
ErrorResponseOf(q, k, message) ==
    [status |-> "error",
     query |-> [text |-> q],
     results |-> <<>>,
     total_results |-> 0,
     requested_top_k |-> k,
     error |-> [code |-> "SEARCH_FAILED", message |-> message]]

\* The dictionary search() returns after formatting.
SuccessResponseOf(q, k, results) ==
    [status |-> "success",
     query |-> [text |-> q],
     results |-> results,
     total_results |-> Len(results),
     requested_top_k |-> k]

\* The argument triples the concurrent calls are made with: the text of a
\* stored chunk, a question, a blank query, a top_k out of range.
ThreadArgs ==
    {<<TextA, TopKMin, ThresholdMin>>, <<QueryR, TopKMin + 1, 5>>,
     <<QueryBlank, TopKMin, ThresholdMin>>, <<TextA, TopKMax + 1, ThresholdMin>>}

\* A thread that has just entered search(query, top_k, similarity_threshold).
Entered(args) ==
    [NoThread EXCEPT !.pc = "validate", !.query = args[1], !.top_k = args[2],
                     !.similarity_threshold = args[3]]

\* Two threads have entered search() on the same client, whose collection
\* holds the points of an earlier ingestion or does not exist.
InitThreads ==
    /\ \/ collection_exists = FALSE /\ index = {}
       \/ collection_exists = TRUE /\ index \in SearchIndexes
    /\ ckpt_file = NoFile
    /\ pc = "threads"
    /\ caller = "search"
    /\ processed_hashes = {}
    /\ visited_urls = {}
    /\ fetch_log = <<>>
    /\ failed_urls = <<>>
    /\ stats = NoStats
    /\ batch_size = Min(CfgBatchSize, BatchCap)
    /\ max_retries = CfgMaxRetries
    /\ to_visit = <<>>
    /\ pages = <<>>
    /\ all_chunks = <<>>
    /\ new_chunks = <<>>
    /\ embeddings = <<>>
    /\ embed_stats = get_stats(NoStats)
    /\ insertion_count = 0
    /\ mark_i = 0
    /\ collection_stats = NoCollectionStats
    /\ report = NoReport
    /\ raised_at = "none"
    /\ chunks = <<>>
    /\ all_embeddings = <<>>
    /\ batch_idx = 0
    /\ attempt = 0
    /\ runs = 0
    /\ calls = 0
    /\ attempts_seen = <<>>
    /\ last_attempts = <<>>
    /\ cur = NoRun
    /\ prev = NoPrev
    /\ SearchIdle
    /\ QdrantIdle
    /\ disk = Missing
    /\ ck_pc = "none"
    /\ ck_last = "none"
    /\ second = {}
    /\ u_args = <<>>
    /\ u_result = NoResult
    /\ threads \in [Threads -> {Entered(args) : args \in ThreadArgs}]
    /\ client = ClientFields

threadOther == <<ingestVars, searchVars, disk, ck_pc, ck_last, second, u_args, u_result,
                 qdrantVars>>

\* The two range checks ahead of the try block, in thread t.
ThreadValidate(t) ==
    /\ threads[t].pc = "validate"
    /\ threads' = [threads EXCEPT ![t].pc =
                      IF ValidArgs(threads[t].top_k, threads[t].similarity_threshold)
                        THEN "embed_query" ELSE "raised"]
    /\ UNCHANGED <<threadOther, client>>

\* embed_query raises ValueError for a blank query; search() catches it.
ThreadEmbedBlank(t) ==
    /\ threads[t].pc = "embed_query"
    /\ IsBlank(threads[t].query)
    /\ threads' = [threads EXCEPT
                      ![t].failure = "blank_query",
                      ![t].response = ErrorResponseOf(threads[t].query, threads[t].top_k,
                                                      "Query cannot be empty"),
                      ![t].pc = "returned"]
    /\ UNCHANGED <<threadOther, client>>

InThreadRetryLoop(t) ==
    /\ threads[t].pc = "embed_query"
    /\ ~ IsBlank(threads[t].query)
    /\ threads[t].attempt < client.max_retries

\* Variant: the vector is kept in a field of the client instead of a local,
\* so it replaces the vector every other call in progress holds.
ThreadEmbedAttemptOk_OnClient(t) ==
    /\ InThreadRetryLoop(t)
    /\ threads' = [u \in Threads |->
                      [threads[u] EXCEPT
                          !.query_embedding = QueryEmbeddingOf(threads[t].query),
                          !.pc = IF u = t THEN "query_points" ELSE @]]
    /\ UNCHANGED <<threadOther, client>>

\* One attempt of embed_query succeeds in thread t: the vector is returned
\* into the local query_embedding.
ThreadEmbedAttemptOk(t) ==
    /\ InThreadRetryLoop(t)
    /\ threads' = [threads EXCEPT
                      ![t].query_embedding = QueryEmbeddingOf(threads[t].query),
                      ![t].pc = "query_points"]
    /\ UNCHANGED <<threadOther, client>>

\* One attempt of embed_query fails in thread t: retried, and on the last
\* attempt RuntimeError is raised, which search() catches.
ThreadEmbedAttemptFail(t) ==
    /\ InThreadRetryLoop(t)
    /\ IF threads[t].attempt = client.max_retries - 1
         THEN threads' = [threads EXCEPT
                             ![t].failure = "embed_query",
                             ![t].response = ErrorResponseOf(threads[t].query,
                                                             threads[t].top_k,
                                                             "Failed to embed query"),
                             ![t].pc = "returned"]
         ELSE threads' = [threads EXCEPT ![t].attempt = @ + 1]
    /\ UNCHANGED <<threadOther, client>>

\* qdrant_client.query_points(limit=top_k) answers thread t.
ThreadQueryPointsOk(t) ==
    /\ threads[t].pc = "query_points"
    /\ collection_exists
    /\ \E h \in query_points(index, threads[t].query_embedding, threads[t].top_k) :
          threads' = [threads EXCEPT ![t].search_results = h, ![t].pc = "format"]
    /\ UNCHANGED <<threadOther, client>>

\* qdrant_client.query_points raises in thread t; search() catches it.
ThreadQueryPointsRaise(t) ==
    /\ threads[t].pc = "query_points"
    /\ threads' = [threads EXCEPT
                      ![t].failure = "query_points",
                      ![t].response = ErrorResponseOf(threads[t].query, threads[t].top_k,
                                                      "query_points failed"),
                      ![t].pc = "returned"]
    /\ UNCHANGED <<threadOther, client>>

\* Step 3 of search() in thread t: the results are formatted and the
\* response returned.
ThreadFormatResults(t) ==
    /\ threads[t].pc = "format"
    /\ threads' = [threads EXCEPT
                      ![t].response =
                          SuccessResponseOf(threads[t].query, threads[t].top_k,
                              FormatLoop(threads[t].search_results,
                                         threads[t].similarity_threshold, 0, <<>>)),
                      ![t].pc = "returned"]
    /\ UNCHANGED <<threadOther, client>>

\* The steps of the two calls interleave at every provider call.
NextThreads ==
    \/ \E t \in Threads : ThreadValidate(t)
    \/ \E t \in Threads : ThreadEmbedBlank(t)
    \/ \E t \in Threads : ThreadEmbedAttemptOk(t)
    \/ \E t \in Threads : ThreadEmbedAttemptFail(t)
    \/ \E t \in Threads : ThreadQueryPointsOk(t)
    \/ \E t \in Threads : ThreadQueryPointsRaise(t)
    \/ \E t \in Threads : ThreadFormatResults(t)

SpecThreads == InitThreads /\ [][NextThreads]_vars

\* What search(q, k, threshold) returns when it runs alone on the stored
\* points and meets the provider outcome named by failure.
AloneResponses(q, k, threshold, fail) ==
    CASE fail = "blank_query" -> {ErrorResponseOf(q, k, "Query cannot be empty")}
      [] fail = "embed_query" -> {ErrorResponseOf(q, k, "Failed to embed query")}
      [] fail = "query_points" -> {ErrorResponseOf(q, k, "query_points failed")}
      [] OTHER -> {SuccessResponseOf(q, k, FormatLoop(h, threshold, 0, <<>>)) :
                      h \in query_points(index, QueryEmbeddingOf(q), k)}

\* C32: every step of two interleaved search() calls leaves the fields of
\* the client and of its embedder as they were, and a call that has returned
\* holds the response the same call returns when it runs alone.
C32_ConcurrentSearchesIndependent ==
    [][/\ client' = client
       /\ \A t \in Threads :
             threads'[t].pc = "returned" =>
                 /\ threads'[t].query = threads[t].query
                 /\ threads'[t].top_k = threads[t].top_k
                 /\ threads'[t].response \in
                       AloneResponses(threads[t].query, threads[t].top_k,
                                      threads[t].similarity_threshold,
                                      threads'[t].failure)
      ]_vars

\* Reached: the first call has returned the hit of its own query while the
\* second, made with another query, is between its vector search and its
\* return, and both hold different hits.
C32_Witness ==
    /\ threads[1].pc = "returned"
    /\ threads[1].response.status = "success"
    /\ threads[1].response.total_results > 0
    /\ threads[2].pc = "format"
    /\ threads[2].query # threads[1].query
    /\ threads[2].search_results # <<>>
    /\ threads[2].search_results[1].score # threads[1].response.results[1].similarity_score

====
